---------------------------- MODULE Spec2Model ----------------------------
(***************************************************************************)
(* Crawl-and-extraction pipeline of the two scrapers of the repository:    *)
(*   - src/CRD_Zeus/CRDzeus.py      KMTScraper.mine_paper_data (the        *)
(*     pagination walk of one paper of the archive);                       *)
(*   - src/Python_ord/ord_scraper.py scrape_reaction, process_dataset,     *)
(*     run_parallel_scraping and the persisting tail of main.              *)
(* A behaviour is one run of one program (variable prog: "kmt" is          *)
(* KMTScraper.initiate_extraction, "ord" is main of ord_scraper.py), or    *)
(* one call of a function on its own ("scrape": scrape_reaction;           *)
(* "transform": transform_reaction_data or simplify_reaction_data;         *)
(* "dispatch": the submit loop of run_parallel_scraping; "reaction_ids":   *)
(* get_reaction_ids; "dataset_ids": get_all_dataset_ids; "fetch":          *)
(* fetch_reaction_data on the detail links of one page).                   *)
(***************************************************************************)
EXTENDS Integers, Sequences, FiniteSets, TLC

(***************************************************************************)
(* Bounds of the model (not program constants).                            *)
(***************************************************************************)
\* longest list of 'Details' anchors a page of the freely chosen listing shows
MaxLinks == 2
\* most pagination buttons a page of the freely chosen listing shows
MaxNav == 2
\* number of listing pages of the paged archive listing
LongPages == 6
\* number of 'Details' anchors on each page of the paged archive listing
PageSize == 50

\* number of reactions of the large dataset of the single-dataset run
BigSize == 5
\* largest max_retries passed to scrape_reaction called on its own
MaxRetriesArg == 4
\* max_workers of the run over several datasets
PoolWorkers == 2
\* longest identifier list of a component or product of a raw record
MaxIdents == 2
\* most inputs, and most outcomes, of a raw record
MaxEntries == 2
\* largest enum code a raw record carries (the tables end at 10, 8 and 4)
MaxCode == 12
\* longest dataset list handed to the submit loop
MaxDispatched == 3
\* most reactions of a dataset (one more than the largest page)
MaxRows == 101
\* most pages of the browse listing a discovery is followed over
MaxPages == 16

(***************************************************************************)
(* Program constants.                                                      *)
(***************************************************************************)
\* ord_scraper.py:27
MAX_RETRIES == 3
\* ord_scraper.py:606  'max_workers': 1 (single_target mode)
SINGLE_WORKERS == 1
\* CRDzeus.py:182  if scanned_count > 200
LIMIT == 200
\* CRDzeus.py:24  self.max_papers
MAX_PAPERS == 4
\* ord_scraper.py:355, the page size the site shows when none is selected
DEFAULT_PAGE_SIZE == 10
\* ord_scraper.py:349, the largest page size the site offers
FULL_PAGE_SIZE == 100

\* Python's None (a missing href, an exhausted pagination)
None == 0

\* listing URLs and detail URLs of the freely chosen listing
FreeUrls == {1, 2}
FreeLinks == {1, 2}

VARIABLES
  prog,                   \* which program this run is: "kmt", "ord", "scrape",
                          \* "transform"
  writes,                 \* how many times the run has written its output file
  \* ---- KMTScraper.initiate_extraction
  kmt_pc,                 \* "archive", "mining", "mined", "saved"; "nopapers": the
                          \* return of line 235; "crashed": an exception left it
  target_papers,          \* CRDzeus.py:231
  paper_idx,              \* CRDzeus.py:240, the paper being mined (i)
  formatted_results,      \* CRDzeus.py:238
  tape,                   \* the pages and fetch outcomes a taped paper serves
  walks,                  \* per mine_paper_data call that returned: its result
                          \* and the exit its loop took (history)
  \* ---- KMTScraper.mine_paper_data: locals
  listing,                \* the kind of listing the paper has: "free" or "paged"
  current_url,            \* CRDzeus.py:112
  visited_pages,          \* CRDzeus.py:122
  previous_detail_links,  \* CRDzeus.py:121
  detail_links,           \* CRDzeus.py:145
  nav_hrefs,              \* CRDzeus.py:164-167, the hrefs with "start" of nav_btns
  next_page,              \* CRDzeus.py:162
  extracted_reactions,    \* CRDzeus.py:115 (each record stands for its reaction_page_link)
  scanned_count,          \* CRDzeus.py:123
  page_count,             \* CRDzeus.py:126
  stop,                   \* which exit of the loop was taken ("none": still walking;
                          \* "error:x": the except clause of line 193, raised by x)
  \* ---- mine_paper_data: what it asked of its collaborators (history)
  rendered,               \* URLs passed to driver.get, in order (CRDzeus.py:133)
  seen_pages,             \* detail_links of every page that reached line 151, in order
  fetched,                \* URLs passed to fetch_reaction_data, in order (CRDzeus.py:177)
  fetch_ok,               \* for each of them, whether the call returned a record
  \* ---- ord_scraper.py: run_parallel_scraping and main
  dataset_list,           \* ord_scraper.py:512-515
  max_workers,            \* ord_scraper.py:505
  use_simple_format,      \* ord_scraper.py:628
  results,                \* ord_scraper.py:521
  main_pc,                \* "start"; "pool": inside the with block; "returned";
                          \* "saved"; "crashed": an exception left main
  disc_driver,            \* the browser session of get_all_dataset_ids
  formatted_output,       \* ord_scraper.py:671, the document written at line 687
  \* ---- one process_dataset call per submitted future (index in dataset_list)
  pc,                     \* "queued", "listing", "items", "done", "collected"
  driver,                 \* the call's browser session: "none", "open", "quit", "stuck"
  reaction_ids,           \* ord_scraper.py:451
  reactions,              \* ord_scraper.py:461
  future,                 \* outcome of the future: pending, a result or an exception
  worker,                 \* the pool thread that runs the call (0: none)
  \* ---- history of the run
  scraped,                \* per call, the ids passed to scrape_reaction, in order
  served,                 \* per call, what the site served for each id scraped
  failed_at,              \* per call, where its pipeline failed ("": nowhere)
  transformed,            \* the records passed to a transform function
  collected,              \* the futures in the order as_completed yielded them
  \* ---- scrape_reaction called on its own
  sr_max_retries,         \* its max_retries argument
  sr_outs,                \* what each attempt would meet, were it made
  sr_ret,                 \* what the call returned and the attempts it made
  \* ---- a transform function called on its own
  tr_raw,                 \* the raw record passed to it
  tr_simple,              \* which function: simplify_reaction_data (TRUE) or
                          \* transform_reaction_data (FALSE)
  tr_ret,                 \* whether it raised, and what it returned
  \* ---- another function called on its own (prog names it)
  call_args,              \* its arguments, and what the site serves it
  call_ret                \* what it returned

\* the locals of mine_paper_data and the history of the walk
walkVars == <<listing, current_url, visited_pages, previous_detail_links, detail_links,
              nav_hrefs, next_page, extracted_reactions, scanned_count, page_count, stop,
              rendered, seen_pages, fetched, fetch_ok>>

kmtVars == <<kmt_pc, target_papers, paper_idx, formatted_results, tape, walks, walkVars>>

ordVars == <<dataset_list, max_workers, use_simple_format, results, main_pc, disc_driver,
             formatted_output, pc, driver, reaction_ids, reactions, future, worker,
             scraped, served, failed_at, transformed, collected>>

srVars == <<sr_max_retries, sr_outs, sr_ret>>

trVars == <<tr_raw, tr_simple, tr_ret>>

\* the variables of the functions called on their own
callVars == <<call_args, call_ret>>

fnVars == <<srVars, trVars, callVars>>

vars == <<prog, writes, kmtVars, ordVars, fnVars>>

(***************************************************************************)
(* Helpers.                                                                *)
(***************************************************************************)
SeqsUpTo(S, n) == UNION {[1..k -> S] : k \in 0..n}

Range(s) == {s[i] : i \in DOMAIN s}

NoDup(s) == \A i, j \in DOMAIN s : i # j => s[i] # s[j]

Min(S) == CHOOSE x \in S : \A y \in S : x <= y

RECURSIVE Flatten(_)
Flatten(ss) == IF ss = <<>> THEN <<>> ELSE Head(ss) \o Flatten(Tail(ss))

(***************************************************************************)
(* The site, as the walk sees it.  A render of a listing page yields the   *)
(* hrefs of the anchors matched by the CSS selector (None: the anchor has  *)
(* no href or no "Details" text) and the hrefs of the pagination buttons   *)
(* (None: no href, or an href without "start").                            *)
(*   free  listing: any page content on any visit, over a small alphabet;  *)
(*   paged listing: page k shows PageSize fresh details and one button to  *)
(*                  page k+1, the last page shows no button;               *)
(*   taped listing: the k-th page rendered is the k-th entry of tape,      *)
(*                  whatever its URL, with the load and the fetch outcomes *)
(*                  the entry fixes (the same on every walk of the paper). *)
(***************************************************************************)
PagedLinks(k) == [j \in 1..PageSize |-> (k - 1) * PageSize + j]

\* the entries a tape is made of: a page of at most one Details anchor and
\* at most one pagination button, loaded or timing out, its fetch
\* succeeding or not
TapeEntries ==
  {[load |-> l, elems |-> e, nav_btns |-> n, ok |-> o] :
     l \in {"ok", "timeout"},
     e \in SeqsUpTo(FreeLinks, 1),
     n \in SeqsUpTo(FreeUrls, 1),
     o \in BOOLEAN}

\* a walk over FreeUrls renders at most one page per URL
Tapes == [1..Cardinality(FreeUrls) -> TapeEntries]

Renders(kind, url) ==
  IF kind = "free"
  THEN {[elems |-> e, nav_btns |-> n] :
          e \in SeqsUpTo(FreeLinks \cup {None}, MaxLinks),
          n \in SeqsUpTo(FreeUrls \cup {None}, MaxNav)}
  ELSE IF kind = "paged"
  THEN {[elems |-> PagedLinks(url),
         nav_btns |-> IF url < LongPages THEN <<url + 1>> ELSE <<>>]}
  ELSE {[elems |-> tape[page_count].elems, nav_btns |-> tape[page_count].nav_btns]}

\* outcomes of waiting for and reading one listing page
PageLoads == {"ok", "get_raises", "timeout", "find_raises", "cookies_raise"}

\* the outcomes the page now loaded can have
PageLoadsNow == IF listing = "tape" THEN {tape[page_count].load} ELSE PageLoads

\* which detail fetches of a page succeed: any subset on a short page; on a
\* long page all, none, all but the first, all but the last
Outcomes(n) ==
  IF n <= MaxLinks + 1 THEN SUBSET (1..n)
  ELSE {1..n, {}, 2..n, 1..(n - 1)}

\* the fetch outcomes the page now processed can have
OutcomesNow(n) ==
  IF listing = "tape" THEN {IF tape[page_count].ok THEN 1..n ELSE {}}
  ELSE Outcomes(n)

(***************************************************************************)
(* mine_paper_data, one definition per part of the loop body.              *)
(***************************************************************************)
\* CRDzeus.py:145-149
DetailLinks(elems) == SelectSeq(elems, LAMBDA h : h # None)

\* mutant of SamePage: the stagnation test is lost
SamePageNever(links, previous) == FALSE

\* CRDzeus.py:151: list equality, on the whole sequence
SamePage(links, previous) == links = previous

\* mutant of PickNext: the test "href not in visited_pages" is lost
PickNextAnyStart(btns, visited) ==
  LET cand == {i \in DOMAIN btns : btns[i] # None}
  IN IF cand = {} THEN None ELSE btns[Min(cand)]

\* CRDzeus.py:162-170: first button whose href has "start" and is not visited
PickNext(btns, visited) ==
  LET cand == {i \in DOMAIN btns : btns[i] # None /\ btns[i] \notin visited}
  IN IF cand = {} THEN None ELSE btns[Min(cand)]

\* mutant of ProcessDetails: a record is kept only while no fetch has failed
ProcessDetailsUntilFailure(links, ok) ==
  LET got[i \in 0..Len(links)] ==
        IF i = 0 THEN <<>>
        ELSE IF \A j \in 1..i : j \in ok THEN Append(got[i - 1], links[i]) ELSE got[i - 1]
  IN [attempted |-> links, records |-> got[Len(links)]]

\* CRDzeus.py:176-180: every detail link is fetched; ok is the set of
\* positions whose fetch_reaction_data returns a record
ProcessDetails(links, ok) ==
  LET got[i \in 0..Len(links)] ==
        IF i = 0 THEN <<>>
        ELSE IF i \in ok THEN Append(got[i - 1], links[i]) ELSE got[i - 1]
  IN [attempted |-> links, records |-> got[Len(links)]]

\* CRDzeus.py:182
LimitReached(count) == count > LIMIT

\* no call of mine_paper_data is under way
WalkIdle ==
  /\ listing = "none"
  /\ current_url = None
  /\ visited_pages = {}
  /\ previous_detail_links = <<>>
  /\ detail_links = <<>>
  /\ nav_hrefs = {}
  /\ next_page = None
  /\ extracted_reactions = <<>>
  /\ scanned_count = 0
  /\ page_count = 0
  /\ stop = "idle"
  /\ rendered = <<>>
  /\ seen_pages = <<>>
  /\ fetched = <<>>
  /\ fetch_ok = <<>>

\* CRDzeus.py:258, initiate_extraction is entered
KmtInit ==
  /\ kmt_pc = "archive"
  /\ target_papers = <<>>
  /\ paper_idx = 0
  /\ formatted_results = <<>>
  /\ tape = <<>>
  /\ walks = <<>>
  /\ WalkIdle

\* the archives explored: no paper, one paper with a free or a paged
\* listing, the same taped paper listed twice
Archives ==
  {<<>>,
   <<[url |-> 1, listing |-> "free"]>>,
   <<[url |-> 1, listing |-> "paged"]>>,
   <<[url |-> 1, listing |-> "tape"], [url |-> 1, listing |-> "tape"]>>}

\* what the taped papers of an archive can serve
TapesOf(papers) ==
  IF \E k \in DOMAIN papers : papers[k].listing = "tape" THEN Tapes ELSE {<<>>}

\* CRDzeus.py:108
TargetPapers(papers) ==
  IF MAX_PAPERS > 0 /\ Len(papers) > MAX_PAPERS THEN SubSeq(papers, 1, MAX_PAPERS)
  ELSE papers

\* mutant of NewVisitedPages: the set of visited pages outlives the call
KeptVisitedPages == visited_pages

\* CRDzeus.py:122
NewVisitedPages == {}

\* CRDzeus.py:112-126: mine_paper_data is entered for paper
StartWalk(paper) ==
  /\ listing' = paper.listing
  /\ current_url' = paper.url
  /\ extracted_reactions' = <<>>
  /\ previous_detail_links' = <<>>
  /\ visited_pages' = NewVisitedPages
  /\ scanned_count' = 0
  /\ page_count' = 1
  /\ stop' = "none"
  /\ detail_links' = <<>>
  /\ nav_hrefs' = {}
  /\ next_page' = None
  /\ rendered' = <<>>
  /\ seen_pages' = <<>>
  /\ fetched' = <<>>
  /\ fetch_ok' = <<>>

\* CRDzeus.py:231-241 (and 90-108): the archive page is read, and the first
\* paper's walk is entered; an exception of collect_archive_urls leaves
\* initiate_extraction through its finally clause
CollectArchive ==
  /\ prog = "kmt"
  /\ kmt_pc = "archive"
  /\ \E how \in {"read", "raises"} :
       IF how = "raises"
       THEN /\ kmt_pc' = "crashed"
            /\ UNCHANGED <<target_papers, paper_idx, tape, walkVars>>
       ELSE \E papers \in Archives : \E t \in TapesOf(papers) :
            /\ target_papers' = TargetPapers(papers)
            /\ tape' = t
            /\ IF papers = <<>>
               THEN /\ kmt_pc' = "nopapers"
                    /\ UNCHANGED <<paper_idx, walkVars>>
               ELSE /\ kmt_pc' = "mining"
                    /\ paper_idx' = 1
                    /\ StartWalk(target_papers'[1])
  /\ UNCHANGED <<prog, writes, formatted_results, walks, ordVars, fnVars>>

\* the walk leaves the loop through exit why, before the details are processed
StopEarly(why) ==
  /\ stop' = why
  /\ UNCHANGED <<current_url, nav_hrefs, next_page, extracted_reactions,
                 scanned_count, page_count, fetched, fetch_ok>>

\* CRDzeus.py:127-191, one iteration of the while loop
MinePage ==
  /\ prog = "kmt"
  /\ stop = "none"
  /\ current_url # None
  /\ UNCHANGED <<prog, writes, kmt_pc, target_papers, paper_idx, formatted_results,
                 tape, walks, listing, ordVars, fnVars>>
  /\ IF current_url \in visited_pages
     THEN /\ StopEarly("loop")
          /\ UNCHANGED <<visited_pages, rendered, detail_links,
                         previous_detail_links, seen_pages>>
     ELSE
       /\ visited_pages' = visited_pages \cup {current_url}
       /\ \E load \in PageLoadsNow :
            IF load = "get_raises"
            THEN /\ StopEarly("error:get")
                 /\ UNCHANGED <<rendered, detail_links, previous_detail_links, seen_pages>>
            ELSE
              /\ rendered' = Append(rendered, current_url)
              /\ IF load \in {"timeout", "find_raises"}
                 THEN /\ StopEarly(IF load = "timeout" THEN "timeout" ELSE "error:find")
                      /\ UNCHANGED <<detail_links, previous_detail_links, seen_pages>>
                 ELSE \E page \in Renders(listing, current_url) :
                   LET links == DetailLinks(page.elems) IN
                   /\ detail_links' = links
                   /\ seen_pages' = Append(seen_pages, links)
                   /\ IF SamePage(links, previous_detail_links)
                      THEN /\ StopEarly("identical")
                           /\ UNCHANGED previous_detail_links
                      ELSE
                        /\ previous_detail_links' = links
                        /\ IF links = <<>>
                           THEN StopEarly("empty")
                           ELSE
                             LET nxt == PickNext(page.nav_btns, visited_pages') IN
                             /\ nav_hrefs' = Range(page.nav_btns) \ {None}
                             /\ next_page' = nxt
                             /\ IF load = "cookies_raise"
                                THEN /\ stop' = "error:cookies"
                                     /\ UNCHANGED <<current_url, extracted_reactions,
                                                    scanned_count, page_count, fetched,
                                                    fetch_ok>>
                                ELSE \E ok \in OutcomesNow(Len(links)) :
                                  LET res == ProcessDetails(links, ok)
                                      cnt == scanned_count + Len(res.records) IN
                                  /\ fetched' = fetched \o res.attempted
                                  /\ fetch_ok' = fetch_ok \o [k \in DOMAIN links |-> k \in ok]
                                  /\ extracted_reactions' = extracted_reactions \o res.records
                                  /\ scanned_count' = cnt
                                  /\ IF LimitReached(cnt)
                                     THEN /\ stop' = "limit"
                                          /\ UNCHANGED <<current_url, page_count>>
                                     ELSE IF nxt = None
                                     THEN /\ stop' = "nonext"
                                          /\ UNCHANGED <<current_url, page_count>>
                                     ELSE /\ stop' = "none"
                                          /\ current_url' = nxt
                                          /\ page_count' = page_count + 1

\* CRDzeus.py:196 and 240-244: mine_paper_data returns what it accumulated,
\* initiate_extraction stores it under the paper's URL and goes on to the
\* next paper
NextPaper ==
  /\ prog = "kmt"
  /\ kmt_pc = "mining"
  /\ stop # "none"
  /\ LET url == target_papers[paper_idx].url IN
     formatted_results' = [u \in DOMAIN formatted_results \cup {url} |->
                             IF u = url THEN extracted_reactions
                             ELSE formatted_results[u]]
  /\ walks' = Append(walks, [items |-> extracted_reactions, stop |-> stop])
  /\ IF paper_idx < Len(target_papers)
     THEN /\ paper_idx' = paper_idx + 1
          /\ StartWalk(target_papers[paper_idx + 1])
          /\ UNCHANGED kmt_pc
     ELSE /\ kmt_pc' = "mined"
          /\ UNCHANGED <<paper_idx, walkVars>>
  /\ UNCHANGED <<prog, writes, target_papers, tape, ordVars, fnVars>>

\* CRDzeus.py:246-254: the results are written, the driver is quit
SaveResults ==
  /\ prog = "kmt"
  /\ kmt_pc = "mined"
  /\ writes' = writes + 1
  /\ kmt_pc' = "saved"
  /\ UNCHANGED <<prog, target_papers, paper_idx, formatted_results, tape, walks,
                 walkVars, ordVars, fnVars>>

(***************************************************************************)
(* ord_scraper.py: scrape_reaction.                                        *)
(***************************************************************************)
\* what one attempt of scrape_reaction can meet: the JSON is extracted and
\* parsed; a load, wait or click raises; the text does not begin with '{'
\* (line 421); json.loads raises (line 424)
AttemptKinds == {"ok", "timeout", "no_marker", "bad_json"}

\* the attempt outcomes explored inside a run over datasets (every failing
\* kind takes the same except clause, line 435)
RunAttemptKinds == {"ok", "timeout"}

\* payloads a successful attempt can return: one the transform functions
\* handle, one on which they raise
Shapes == {"good", "odd"}

\* ord_scraper.py:433
ScrapeSuccess(reaction_id, shape) ==
  [reaction_id |-> reaction_id, data |-> shape, success |-> TRUE]

\* ord_scraper.py:439
ScrapeFailure(reaction_id) ==
  [reaction_id |-> reaction_id, data |-> "None", success |-> FALSE,
   error |-> "Max retries exceeded"]

\* ord_scraper.py:395-439, attempts a, a+1, ... of range(max_retries); made is
\* the list of the attempts made so far
RECURSIVE ScrapeFrom(_, _, _, _, _, _)
ScrapeFrom(a, reaction_id, outs, shape, max_retries, made) ==
  IF a > max_retries
  THEN [made |-> made, ret |-> ScrapeFailure(reaction_id)]
  ELSE IF outs[a] = "ok"
  THEN [made |-> Append(made, a), ret |-> ScrapeSuccess(reaction_id, shape)]
  ELSE ScrapeFrom(a + 1, reaction_id, outs, shape, max_retries, Append(made, a))

\* mutant of ScrapeReaction: one attempt too few
ScrapeReactionShort(reaction_id, outs, shape, max_retries) ==
  ScrapeFrom(1, reaction_id, outs, shape, max_retries - 1, <<>>)

\* ord_scraper.py:393-439
ScrapeReaction(reaction_id, outs, shape, max_retries) ==
  ScrapeFrom(1, reaction_id, outs, shape, max_retries, <<>>)

SrInit ==
  /\ sr_max_retries \in 0..MaxRetriesArg
  /\ sr_outs \in [1..sr_max_retries -> AttemptKinds]
  /\ sr_ret = [called |-> FALSE]

SrIdle ==
  /\ sr_max_retries = 0
  /\ sr_outs = <<>>
  /\ sr_ret = [called |-> FALSE]

\* one call scrape_reaction(driver, 1, max_retries)
CallScrapeReaction ==
  /\ prog = "scrape"
  /\ ~sr_ret.called
  /\ \E shape \in Shapes :
       LET r == ScrapeReaction(1, sr_outs, shape, sr_max_retries) IN
       sr_ret' = [called |-> TRUE, made |-> r.made, ret |-> r.ret]
  /\ UNCHANGED <<prog, writes, kmtVars, ordVars, sr_max_retries, sr_outs, trVars,
                 callVars>>

(***************************************************************************)
(* ord_scraper.py: process_dataset, run_parallel_scraping, main.           *)
(***************************************************************************)
\* the runs explored: one large dataset, found on the browse page, on one
\* worker (single_target mode); three small datasets named by the user on a
\* pool of PoolWorkers; a browse page that lists no dataset (mode all)
RunConfigs ==
  {[mode |-> "single_target", list |-> <<"big">>, workers |-> SINGLE_WORKERS],
   [mode |-> "specific_datasets", list |-> <<"a", "b", "c">>, workers |-> PoolWorkers],
   [mode |-> "all", list |-> <<>>, workers |-> PoolWorkers]}

\* number of reactions the site lists for a dataset
SiteSize(d) == IF d = "big" THEN BigSize ELSE IF d \in {"a", "b"} THEN 1 ELSE 0

Tasks == DOMAIN dataset_list

\* dict.get(field, default)
Get(r, field, default) == IF field \in DOMAIN r THEN r[field] ELSE default

\* ord_scraper.py:144-192 and 195-248, as far as process_dataset depends on
\* them: the call raises on a payload it cannot walk (data None included),
\* and returns the canonical record of the chosen schema otherwise
Transform(result, simple) ==
  IF result.data \in {"odd", "None"}
  THEN [raised |-> TRUE]
  ELSE [raised |-> FALSE,
        value |-> [reaction_id |-> result.reaction_id,
                   schema |-> IF simple THEN "simplified" ELSE "detailed"]]

\* mutant of ShouldTransform: the test of result['success'] is lost
ShouldTransformAlways(result) == TRUE

\* ord_scraper.py:466
ShouldTransform(result) == result.success

\* ord_scraper.py:466-475: the record appended for one scraped item
Formatted(result, simple) ==
  IF ShouldTransform(result) /\ ~Transform(result, simple).raised
  THEN [formatted_data |-> Transform(result, simple).value] @@ result
  ELSE result

\* mutant of LoopContinues: the loop is left after an item that failed
LoopContinuesWhileOk(ids, done) ==
  /\ Len(done) < Len(ids)
  /\ IF done = <<>> THEN TRUE ELSE "formatted_data" \in DOMAIN done[Len(done)]

\* ord_scraper.py:462: the for loop goes on while ids are left
LoopContinues(ids, done) == Len(done) < Len(ids)

\* mutant of SuccessCount: every attempt is counted
SuccessCountAll(rs) == Len(rs)

\* ord_scraper.py:480
SuccessCount(rs) == Cardinality({k \in DOMAIN rs : rs[k].success})

\* ord_scraper.py:481-486 (and 454-459 for no ids)
DatasetResult(dataset_id, rs) ==
  [dataset_id |-> dataset_id, reactions |-> rs, total_reactions |-> Len(rs),
   successful_scrapes |-> SuccessCount(rs)]

\* mutant of DatasetError: the result of a failed call does not name its dataset
DatasetErrorAnonymous(dataset_id) ==
  [reactions |-> <<>>, total_reactions |-> 0, successful_scrapes |-> 0,
   error |-> "error"]

\* ord_scraper.py:490-496
DatasetError(dataset_id) ==
  [dataset_id |-> dataset_id, reactions |-> <<>>, total_reactions |-> 0,
   successful_scrapes |-> 0, error |-> "error"]

\* mutant of CollectResult: the entry of a failed future has no dataset_id
CollectResultAnonymous(fut, dataset_id) ==
  IF fut.state = "result" THEN fut.value ELSE [error |-> "error"]

\* ord_scraper.py:536-542: what the as_completed loop appends for a future
CollectResult(fut, dataset_id) ==
  IF fut.state = "result" THEN fut.value
  ELSE [dataset_id |-> dataset_id, error |-> "error"]

\* ord_scraper.py:678-682
FormattedReactions(dataset) ==
  LET rs == Get(dataset, "reactions", <<>>)
      kept == SelectSeq(rs, LAMBDA r : Get(r, "success", FALSE)
                                       /\ "formatted_data" \in DOMAIN r)
  IN [k \in DOMAIN kept |-> kept[k].formatted_data]

\* ord_scraper.py:671-683
RECURSIVE FormatOutput(_)
FormatOutput(rs) ==
  IF rs = <<>> THEN <<>>
  ELSE LET before == FormatOutput(SubSeq(rs, 1, Len(rs) - 1))
           dataset == rs[Len(rs)]
           id == Get(dataset, "dataset_id", "")
           entry == [dataset_id |-> id,
                     total_reactions_scraped |-> Get(dataset, "total_reactions", 0),
                     reactions |-> FormattedReactions(dataset)]
       IN IF id = "" THEN before
          ELSE [x \in DOMAIN before \cup {id} |-> IF x = id THEN entry ELSE before[x]]

\* no future has been submitted
NoTasks ==
  /\ dataset_list = <<>>
  /\ max_workers = 0
  /\ results = <<>>
  /\ disc_driver = "none"
  /\ formatted_output = <<>>
  /\ pc = <<>> /\ driver = <<>> /\ reaction_ids = <<>> /\ reactions = <<>>
  /\ future = <<>> /\ worker = <<>>
  /\ scraped = <<>> /\ served = <<>> /\ failed_at = <<>>
  /\ transformed = {}
  /\ collected = <<>>

\* ord_scraper.py:616-631: main has read the configuration
OrdInit ==
  /\ use_simple_format \in BOOLEAN
  /\ main_pc = "start"
  /\ NoTasks

OrdIdle ==
  /\ use_simple_format = FALSE
  /\ main_pc = "idle"
  /\ NoTasks

\* mutant of Quit: the finally clause is lost
QuitSkipped(quit_ok) == "open"

\* ord_scraper.py:333 and 498: driver.quit() in the finally clause, which
\* ends the use of the session whether it returns or raises ("stuck")
Quit(quit_ok) == IF quit_ok THEN "quit" ELSE "stuck"

\* ord_scraper.py:512-532 (and 255-333): run_parallel_scraping takes the
\* datasets it was given, or lists them with a browser session of its own,
\* and submits one future per dataset; an exception of get_all_dataset_ids
\* (no session, the browse page not loading, driver.quit) leaves main
DiscoverFrom(configs) ==
  /\ prog = "ord" /\ main_pc = "start"
  /\ \E cfg \in configs,
        how \in {"listed", "driver_raises", "browse_raises", "quit_raises"} :
       LET given == cfg.mode = "specific_datasets"
           list == IF given \/ how = "listed" THEN cfg.list ELSE <<>>
       IN
       /\ given => how = "listed"
       /\ max_workers' = cfg.workers
       /\ dataset_list' = list
       /\ disc_driver' = IF given \/ how = "driver_raises" THEN "none"
                         ELSE Quit(how # "quit_raises")
       /\ main_pc' = IF how # "listed" THEN "crashed"
                     ELSE IF list = <<>> THEN "returned" ELSE "pool"
       /\ pc' = [i \in DOMAIN list |-> "queued"]
       /\ driver' = [i \in DOMAIN list |-> "none"]
       /\ reaction_ids' = [i \in DOMAIN list |-> <<>>]
       /\ reactions' = [i \in DOMAIN list |-> <<>>]
       /\ future' = [i \in DOMAIN list |-> [state |-> "pending"]]
       /\ worker' = [i \in DOMAIN list |-> 0]
       /\ scraped' = [i \in DOMAIN list |-> <<>>]
       /\ served' = [i \in DOMAIN list |-> <<>>]
       /\ failed_at' = [i \in DOMAIN list |-> ""]
  /\ UNCHANGED <<prog, writes, kmtVars, fnVars, use_simple_format, results,
                 formatted_output, transformed, collected>>

DiscoverDatasets == DiscoverFrom(RunConfigs)

\* a run in which the user names the same dataset twice (ord_scraper.py:574-577)
RepeatedConfigs ==
  {[mode |-> "specific_datasets", list |-> <<"a", "a">>, workers |-> PoolWorkers]}

DiscoverRepeated == DiscoverFrom(RepeatedConfigs)

Running == {i \in Tasks : pc[i] \in {"listing", "items"}}

\* mutant of IdleWorkers: a thread takes a future while it runs another
IdleWorkersAll == 1..max_workers

\* ord_scraper.py:522: the pool has max_workers threads, each runs one
\* submitted call at a time
IdleWorkers == {w \in 1..max_workers : \A i \in Running : worker[i] # w}

\* the end of a process_dataset call that entered its try block: the return
\* value ret (a result of line 454, 481 or 490) and the finally clause of
\* line 498; when driver.quit() raises, the exception replaces the value
Finish(i, ret, quit_ok) ==
  /\ pc' = [pc EXCEPT ![i] = "done"]
  /\ worker' = [worker EXCEPT ![i] = 0]
  /\ driver' = [driver EXCEPT ![i] = Quit(quit_ok)]
  /\ future' = [future EXCEPT ![i] =
                  IF quit_ok THEN [state |-> "result", value |-> ret]
                  ELSE [state |-> "exception"]]

\* a pool worker takes the oldest queued future and runs line 448
StartDataset(i) ==
  /\ prog = "ord" /\ main_pc = "pool"
  /\ pc[i] = "queued"
  /\ \A j \in Tasks : j < i => pc[j] # "queued"
  /\ \E w \in IdleWorkers, got \in BOOLEAN :
       /\ IF got
          THEN /\ pc' = [pc EXCEPT ![i] = "listing"]
               /\ worker' = [worker EXCEPT ![i] = w]
               /\ driver' = [driver EXCEPT ![i] = "open"]
               /\ UNCHANGED <<future, failed_at>>
          ELSE /\ pc' = [pc EXCEPT ![i] = "done"]
               /\ UNCHANGED worker
               /\ future' = [future EXCEPT ![i] = [state |-> "exception"]]
               /\ failed_at' = [failed_at EXCEPT ![i] = "driver"]
               /\ UNCHANGED driver
  /\ UNCHANGED <<prog, writes, kmtVars, fnVars, disc_driver, dataset_list, max_workers,
                 use_simple_format,
                 results, main_pc, formatted_output, reaction_ids, reactions,
                 scraped, served, transformed, collected>>

\* ord_scraper.py:450-459: get_reaction_ids returns the listed ids, or [] when
\* the listing could not be read (lines 369-370, 388-390); a statement of the
\* try block itself may raise ("raises")
Discover(i) ==
  /\ prog = "ord"
  /\ pc[i] = "listing"
  /\ \E how \in {"found", "unread", "raises"}, quit_ok \in BOOLEAN :
       LET d == dataset_list[i]
           ids == IF how = "found" THEN [k \in 1..SiteSize(d) |-> k] ELSE <<>>
       IN IF how = "raises"
          THEN /\ Finish(i, DatasetError(d), quit_ok)
               /\ failed_at' = [failed_at EXCEPT ![i] = IF quit_ok THEN "body" ELSE "quit"]
               /\ UNCHANGED reaction_ids
          ELSE /\ reaction_ids' = [reaction_ids EXCEPT ![i] = ids]
               /\ IF ids = <<>>
                  THEN /\ Finish(i, DatasetResult(d, <<>>), quit_ok)
                       /\ failed_at' = [failed_at EXCEPT ![i] =
                                          IF ~quit_ok THEN "quit"
                                          ELSE IF how = "unread" THEN "listing" ELSE ""]
                  ELSE /\ quit_ok
                       /\ pc' = [pc EXCEPT ![i] = "items"]
                       /\ UNCHANGED <<driver, future, failed_at, worker>>
  /\ UNCHANGED <<prog, writes, kmtVars, fnVars, disc_driver, dataset_list, max_workers,
                 use_simple_format,
                 results, main_pc, formatted_output, reactions, scraped, served,
                 transformed, collected>>

\* ord_scraper.py:462-478, one iteration of the for loop
ProcessItem(i) ==
  /\ prog = "ord"
  /\ pc[i] = "items"
  /\ LoopContinues(reaction_ids[i], reactions[i])
  /\ \E outs \in [1..MAX_RETRIES -> RunAttemptKinds], shape \in Shapes :
       LET rid == reaction_ids[i][Len(reactions[i]) + 1]
           result == ScrapeReaction(rid, outs, shape, MAX_RETRIES).ret
       IN /\ scraped' = [scraped EXCEPT ![i] = Append(@, rid)]
          /\ served' = [served EXCEPT ![i] =
                          Append(@, IF \E a \in DOMAIN outs : outs[a] = "ok"
                                    THEN shape ELSE "fail")]
          /\ transformed' = IF ShouldTransform(result)
                            THEN transformed \cup {[task |-> i, record |-> result]}
                            ELSE transformed
          /\ reactions' = [reactions EXCEPT ![i] = Append(@, Formatted(result, use_simple_format))]
  /\ UNCHANGED <<prog, writes, kmtVars, fnVars, disc_driver, worker, dataset_list, max_workers,
                 use_simple_format,
                 results, main_pc, formatted_output, pc, driver, reaction_ids,
                 future, failed_at, collected>>

\* ord_scraper.py:480-498 after the loop; or a statement of the try block
\* raises on the way and lines 488-496 build the result
FinishDataset(i) ==
  /\ prog = "ord"
  /\ pc[i] = "items"
  /\ \E how \in {"returns", "raises"}, quit_ok \in BOOLEAN :
       LET d == dataset_list[i] IN
       /\ how = "returns" => ~LoopContinues(reaction_ids[i], reactions[i])
       /\ Finish(i, IF how = "returns" THEN DatasetResult(d, reactions[i])
                    ELSE DatasetError(d), quit_ok)
       /\ failed_at' = [failed_at EXCEPT ![i] =
                          IF ~quit_ok THEN "quit"
                          ELSE IF how = "raises" THEN "body" ELSE ""]
  /\ UNCHANGED <<prog, writes, kmtVars, fnVars, disc_driver, dataset_list, max_workers,
                 use_simple_format,
                 results, main_pc, formatted_output, reaction_ids, reactions,
                 scraped, served, transformed, collected>>

\* ord_scraper.py:534-542, one iteration of the as_completed loop
Collect(i) ==
  /\ prog = "ord" /\ main_pc = "pool"
  /\ pc[i] = "done"
  /\ pc' = [pc EXCEPT ![i] = "collected"]
  /\ results' = Append(results, CollectResult(future[i], dataset_list[i]))
  /\ collected' = Append(collected, i)
  /\ UNCHANGED <<prog, writes, kmtVars, fnVars, disc_driver, worker, dataset_list, max_workers,
                 use_simple_format,
                 main_pc, formatted_output, driver, reaction_ids, reactions, future,
                 scraped, served, failed_at, transformed>>

\* mutant of AllCompleted: the loop is left after the first future
FirstCompleted == \E i \in Tasks : pc[i] = "collected"

\* ord_scraper.py:534: as_completed has yielded every future of future_map
AllCompleted == \A i \in Tasks : pc[i] = "collected"

\* ord_scraper.py:544: as_completed is exhausted, the pool shuts down
ReturnResults ==
  /\ prog = "ord" /\ main_pc = "pool"
  /\ AllCompleted
  /\ main_pc' = "returned"
  /\ UNCHANGED <<prog, writes, kmtVars, fnVars, disc_driver, worker, dataset_list, max_workers,
                 use_simple_format,
                 results, formatted_output, pc, driver, reaction_ids, reactions,
                 future, scraped, served, failed_at, transformed, collected>>

\* ord_scraper.py:670-687
SaveOutput ==
  /\ prog = "ord" /\ main_pc = "returned"
  /\ formatted_output' = FormatOutput(results)
  /\ main_pc' = "saved"
  /\ writes' = writes + 1
  /\ UNCHANGED <<prog, kmtVars, fnVars, disc_driver, worker, dataset_list, max_workers,
                 use_simple_format,
                 results, pc, driver, reaction_ids, reactions, future, scraped,
                 served, failed_at, transformed, collected>>

KmtIdle ==
  /\ kmt_pc = "idle"
  /\ target_papers = <<>>
  /\ paper_idx = 0
  /\ formatted_results = <<>>
  /\ tape = <<>>
  /\ walks = <<>>
  /\ WalkIdle

(***************************************************************************)
(* ord_scraper.py: the lookup tables and the two transform functions.      *)
(* A JSON object is a record (a key it lacks is a field it lacks), a JSON  *)
(* array a sequence, a JSON string or number a string, an enum code an     *)
(* integer.                                                                *)
(***************************************************************************)
\* Python's None where a dict is expected, and where a string is expected
NoneDict == [py_none |-> TRUE]
NoneStr == "None"

IsNone(x) == "py_none" \in DOMAIN x

\* {} (and [] where a list is expected)
EmptyDict == [k \in {} |-> NoneStr]

\* ord_scraper.py:34-38
COMPONENT_ROLES ==
  0 :> "UNSPECIFIED" @@ 1 :> "REACTANT" @@ 2 :> "REAGENT" @@ 3 :> "SOLVENT" @@
  4 :> "CATALYST" @@ 5 :> "WORKUP" @@ 6 :> "INTERNAL_STANDARD" @@
  7 :> "AUTHENTIC_STANDARD" @@ 8 :> "PRODUCT" @@ 9 :> "BYPRODUCT" @@
  10 :> "SIDE_PRODUCT"

\* ord_scraper.py:40-44
IDENTIFIER_TYPES ==
  0 :> "UNSPECIFIED" @@ 1 :> "CUSTOM" @@ 2 :> "SMILES" @@ 3 :> "INCHI" @@
  4 :> "MOLBLOCK" @@ 5 :> "FINGERPRINT" @@ 6 :> "NAME" @@
  7 :> "IUPAC_NAME" @@ 8 :> "CAS_NUMBER"

\* ord_scraper.py:46-50
MEASUREMENT_UNITS ==
  [mass |-> 0 :> "UNSPECIFIED" @@ 1 :> "KILOGRAM" @@ 2 :> "GRAM" @@
            3 :> "MILLIGRAM" @@ 4 :> "MICROGRAM",
   volume |-> 0 :> "UNSPECIFIED" @@ 1 :> "LITER" @@ 2 :> "MILLILITER" @@
              3 :> "MICROLITER" @@ 4 :> "NANOLITER",
   moles |-> 0 :> "UNSPECIFIED" @@ 1 :> "MOLE" @@ 2 :> "MILLIMOLE" @@
             3 :> "MICROMOLE" @@ 4 :> "NANOMOLE"]

\* mutant of Lookup: a code outside the table gets the table's entry for 0
LookupUnspecified(table, code) ==
  IF code \in DOMAIN table THEN table[code] ELSE table[0]

\* TABLE.get(code, "UNKNOWN"), ord_scraper.py:121, 138, 166, 181, 230
Lookup(table, code) == Get(table, code, "UNKNOWN")

\* ord_scraper.py:166 and 230: COMPONENT_ROLES.get(comp.get("reactionRole"),
\* "UNKNOWN"); without the field the key is None, which the table lacks
RoleName(comp) ==
  IF "reactionRole" \in DOMAIN comp THEN Lookup(COMPONENT_ROLES, comp.reactionRole)
  ELSE "UNKNOWN"

\* ord_scraper.py:116-124
ParseIdentifiers(component) ==
  LET l == Get(component, "identifiersList", <<>>)
  IN [k \in DOMAIN l |->
        [type |-> Lookup(IDENTIFIER_TYPES, Get(l[k], "type", 0)),
         value |-> Get(l[k], "value", NoneStr)]]

\* ord_scraper.py:135-140 and 178-182: one measurement with its unit name
Measured(qty_type, measurement) ==
  [value |-> Get(measurement, "value", NoneStr),
   units |-> Lookup(MEASUREMENT_UNITS[qty_type], Get(measurement, "units", 0))]

\* mutant of ParseAmount: every quantity kind present is emitted
ParseAmountAll(amount_obj) ==
  [k \in DOMAIN amount_obj \cap {"moles", "volume", "mass"} |-> Measured(k, amount_obj[k])]

\* ord_scraper.py:127-141; amount_obj is {} for a component without amount
\* (comp.get('amount') is None, which line 129 treats as {})
ParseAmount(amount_obj) ==
  IF DOMAIN amount_obj = {} THEN EmptyDict
  ELSE IF "moles" \in DOMAIN amount_obj
  THEN [moles |-> Measured("moles", amount_obj.moles)]
  ELSE IF "volume" \in DOMAIN amount_obj
  THEN [volume |-> Measured("volume", amount_obj.volume)]
  ELSE IF "mass" \in DOMAIN amount_obj
  THEN [mass |-> Measured("mass", amount_obj.mass)]
  ELSE EmptyDict

\* mutant of LacksData: only a falsy record is turned away
LacksDataWhenFalsy(raw) == IsNone(raw) \/ DOMAIN raw = {}

\* ord_scraper.py:146 and 197: not raw_reaction or 'data' not in raw_reaction
LacksData(raw) == IsNone(raw) \/ DOMAIN raw = {} \/ "data" \notin DOMAIN raw

\* ord_scraper.py:162-167
DetailedComponent(comp) ==
  [identifiers |-> ParseIdentifiers(comp),
   amount |-> ParseAmount(Get(comp, "amount", EmptyDict)),
   reaction_role |-> RoleName(comp)]

\* ord_scraper.py:158-169
DetailedInput(input_pair) ==
  LET comps == Get(input_pair[2], "componentsList", <<>>)
  IN <<input_pair[1],
       [components |-> [j \in DOMAIN comps |-> DetailedComponent(comps[j])]]>>

\* ord_scraper.py:175-183
DetailedMeasurement(meas) ==
  LET meas_data == [type |-> Get(meas, "type", NoneStr),
                    details |-> Get(meas, "details", NoneStr)]
  IN IF "amount" \in DOMAIN meas
     THEN IF "mass" \in DOMAIN meas.amount
          THEN [mass |-> Measured("mass", meas.amount.mass)] @@ meas_data
          ELSE meas_data
     ELSE meas_data

\* ord_scraper.py:173-190
DetailedProduct(product) ==
  LET ms == Get(product, "measurementsList", <<>>)
  IN [identifiers |-> ParseIdentifiers(product),
      reaction_role |-> "PRODUCT",
      is_desired_product |-> Get(product, "isDesiredProduct", FALSE),
      measurements |-> [k \in DOMAIN ms |-> DetailedMeasurement(ms[k])]]

\* the products of every outcome, in order (the nested loops of lines
\* 172-173 and 237-238)
ProductsOf(data) ==
  LET outs == Get(data, "outcomesList", <<>>)
  IN Flatten([k \in DOMAIN outs |-> Get(outs[k], "productsList", <<>>)])

\* ord_scraper.py:144-192; line 149 raises on a record without data,
\* line 151 on a data that is None
TransformReactionData(raw) ==
  IF LacksData(raw) THEN [raised |-> FALSE, value |-> NoneDict]
  ELSE IF "data" \notin DOMAIN raw THEN [raised |-> TRUE]
  ELSE IF IsNone(raw.data) THEN [raised |-> TRUE]
  ELSE
    LET data == raw.data
        ins == Get(data, "inputsMap", <<>>)
        prods == ProductsOf(data)
    IN [raised |-> FALSE,
        value |-> [reaction_id |-> Get(data, "reactionId", NoneStr),
                   success |-> Get(raw, "success", TRUE),
                   inputsMap |-> [k \in DOMAIN ins |-> DetailedInput(ins[k])],
                   outcomes |-> [k \in DOMAIN prods |-> DetailedProduct(prods[k])]]]

\* the positions of the identifiers of item whose type code is 2
SmilesAt(item) ==
  LET l == Get(item, "identifiersList", <<>>)
  IN {k \in DOMAIN l : IF "type" \in DOMAIN l[k] THEN l[k].type = 2 ELSE FALSE}

\* mutant of PickSmiles: the last SMILES identifier is taken
PickSmilesLast(item) ==
  LET k == CHOOSE x \in SmilesAt(item) : \A y \in SmilesAt(item) : y <= x
  IN item.identifiersList[k]

\* ord_scraper.py:214-217 and 239-242: the first identifier of type 2, for
\* an item that has one
PickSmiles(item) == item.identifiersList[Min(SmilesAt(item))]

\* ord_scraper.py:214-217 and 239-242: next((id['value'] for ...), None);
\* id['value'] raises on an identifier without value
Smiles(item) ==
  IF SmilesAt(item) = {} THEN [raised |-> FALSE, value |-> NoneStr]
  ELSE IF "value" \in DOMAIN PickSmiles(item)
  THEN [raised |-> FALSE, value |-> PickSmiles(item).value]
  ELSE [raised |-> TRUE]

\* ord_scraper.py:220-226; amt[...]['value'] raises on a measurement
\* without value
SimpleAmount(comp) ==
  IF "amount" \notin DOMAIN comp THEN [raised |-> FALSE, value |-> EmptyDict]
  ELSE LET amt == comp.amount IN
    IF "moles" \in DOMAIN amt
    THEN IF "value" \in DOMAIN amt.moles
         THEN [raised |-> FALSE,
               value |-> [type |-> "moles", value |-> amt.moles.value]]
         ELSE [raised |-> TRUE]
    ELSE IF "volume" \in DOMAIN amt
    THEN IF "value" \in DOMAIN amt.volume
         THEN [raised |-> FALSE,
               value |-> [type |-> "volume", value |-> amt.volume.value,
                          units |-> "LITER"]]
         ELSE [raised |-> TRUE]
    ELSE [raised |-> FALSE, value |-> EmptyDict]

\* the components of every input, in order (lines 208 and 212)
ComponentsOf(data) ==
  LET ins == Get(data, "inputsMap", <<>>)
  IN Flatten([k \in DOMAIN ins |-> Get(ins[k][2], "componentsList", <<>>)])

\* ord_scraper.py:228-232
SimpleComponent(comp) ==
  [smiles |-> Smiles(comp).value,
   role |-> RoleName(comp),
   amount |-> SimpleAmount(comp).value]

\* ord_scraper.py:208-234
SimpleInput(input_pair) ==
  LET comps == Get(input_pair[2], "componentsList", <<>>)
  IN [tab |-> input_pair[1],
      components |-> [j \in DOMAIN comps |-> SimpleComponent(comps[j])]]

\* ord_scraper.py:243-246
SimpleProduct(product) ==
  [smiles |-> Smiles(product).value,
   is_desired |-> Get(product, "isDesiredProduct", FALSE)]

\* ord_scraper.py:195-248
SimplifyReactionData(raw) ==
  IF LacksData(raw) THEN [raised |-> FALSE, value |-> NoneDict]
  ELSE IF "data" \notin DOMAIN raw THEN [raised |-> TRUE]
  ELSE IF IsNone(raw.data) THEN [raised |-> TRUE]
  ELSE
    LET data == raw.data
        ins == Get(data, "inputsMap", <<>>)
        comps == ComponentsOf(data)
        prods == ProductsOf(data)
    IN IF \/ \E k \in DOMAIN comps : Smiles(comps[k]).raised \/ SimpleAmount(comps[k]).raised
          \/ \E k \in DOMAIN prods : Smiles(prods[k]).raised
       THEN [raised |-> TRUE]
       ELSE [raised |-> FALSE,
             value |-> [reaction_id |-> Get(data, "reactionId", NoneStr),
                        inputs |-> [k \in DOMAIN ins |-> SimpleInput(ins[k])],
                        outcomes |-> [k \in DOMAIN prods |-> SimpleProduct(prods[k])]]]

(***************************************************************************)
(* The raw records the transform functions are called on.                  *)
(***************************************************************************)
\* the fixture of the specification
FixtureComponent ==
  [identifiersList |-> <<[type |-> 2, value |-> "CCO"]>>, reactionRole |-> 1]

FixtureProduct ==
  [identifiersList |-> <<[type |-> 2, value |-> "CC"]>>, isDesiredProduct |-> TRUE]

RawOf(ins, outs) ==
  [data |-> [reactionId |-> "rx1", inputsMap |-> ins, outcomesList |-> outs]]

OneInput(comp) == <<<<"A", [componentsList |-> <<comp>>]>>>>

OneOutcome(product) == <<[productsList |-> <<product>>]>>

Fixture == RawOf(OneInput(FixtureComponent), OneOutcome(FixtureProduct))

\* identifiers: two SMILES, a name, a type code outside the table, one
\* without type, a SMILES without value
Idents ==
  {[type |-> 2, value |-> "CCO"], [type |-> 2, value |-> "CC"],
   [type |-> 6, value |-> "ethanol"], [type |-> 9, value |-> "x"],
   [value |-> "y"], [type |-> 2]}

IdentFields ==
  {EmptyDict} \cup {[identifiersList |-> l] : l \in SeqsUpTo(Idents, MaxIdents)}

AllKinds ==
  [moles |-> [value |-> "1", units |-> 2], volume |-> [value |-> "2", units |-> 2],
   mass |-> [value |-> "3", units |-> 3]]

\* amounts: every non-empty choice of quantity kinds, moles or volume
\* without value, an amount of none of the three kinds
Amounts ==
  {[k \in K |-> AllKinds[k]] : K \in (SUBSET {"moles", "volume", "mass"}) \ {{}}}
    \cup {[moles |-> [units |-> 1]], [volume |-> [units |-> 1]],
          [unmeasured |-> [value |-> "4", units |-> 1]]}

AmountFields ==
  {EmptyDict, [amount |-> EmptyDict]} \cup {[amount |-> a] : a \in Amounts}

Components ==
  {i @@ a @@ r : i \in IdentFields, a \in AmountFields,
                 r \in {EmptyDict, [reactionRole |-> 1]}}

Measurements ==
  {EmptyDict,
   [measurementsList |-> <<[type |-> 3, details |-> "yield",
                            amount |-> [mass |-> [value |-> "3", units |-> 2]]]>>],
   [measurementsList |-> <<[details |-> "d"],
                           [type |-> 3, amount |-> [moles |-> [value |-> "1"]]]>>]}

Products ==
  {i @@ d @@ m : i \in IdentFields,
                 d \in {EmptyDict, [isDesiredProduct |-> TRUE],
                        [isDesiredProduct |-> FALSE]},
                 m \in Measurements}

\* a component and a product that carry the code c in every enum field
CodedComponent(c, qty_type) ==
  [identifiersList |-> <<[type |-> c, value |-> "CCO"]>>, reactionRole |-> c,
   amount |-> [k \in {qty_type} |-> [value |-> "1", units |-> c]]]

CodedProduct(c) ==
  [identifiersList |-> <<[type |-> c, value |-> "CC"]>>,
   measurementsList |-> <<[type |-> c, details |-> "d",
                           amount |-> [mass |-> [value |-> "3", units |-> c]]]>>]

Codes == (0 - 1)..MaxCode

\* records of several inputs and several outcomes
InputPairs ==
  {<<"A", [componentsList |-> <<FixtureComponent>>]>>,
   <<"B", [componentsList |-> <<[reactionRole |-> 3], FixtureComponent>>]>>,
   <<"A", EmptyDict>>}

OutcomeEntries ==
  {[productsList |-> <<FixtureProduct, [isDesiredProduct |-> FALSE]>>],
   [productsList |-> <<[identifiersList |-> <<[type |-> 2, value |-> "CCO"]>>]>>],
   EmptyDict}

\* records without their data field, None and {} among them
RootlessRecords ==
  {NoneDict, EmptyDict,
   [reaction_id |-> "r1", success |-> TRUE],
   [reaction_id |-> "r1", success |-> FALSE, error |-> "Max retries exceeded"]}

RawRecords ==
  {RawOf(OneInput(c), OneOutcome(FixtureProduct)) : c \in Components}
    \cup {RawOf(OneInput(FixtureComponent), OneOutcome(p)) : p \in Products}
    \cup {RawOf(OneInput(CodedComponent(c, q)), OneOutcome(CodedProduct(c))) :
            c \in Codes, q \in {"moles", "volume", "mass"}}
    \cup {RawOf(ins, outs) : ins \in SeqsUpTo(InputPairs, MaxEntries),
                             outs \in SeqsUpTo(OutcomeEntries, MaxEntries)}
    \cup RootlessRecords
    \cup {[data |-> NoneDict], [data |-> EmptyDict], [data |-> [reactionId |-> "rx1"]],
          [reaction_id |-> "rx1", success |-> TRUE] @@ Fixture}

TrInit ==
  /\ tr_raw \in RawRecords
  /\ tr_simple \in BOOLEAN
  /\ tr_ret = [called |-> FALSE]

TrIdle ==
  /\ tr_raw = EmptyDict
  /\ tr_simple = FALSE
  /\ tr_ret = [called |-> FALSE]

\* ord_scraper.py:469-472: one call of the transform function chosen
CallTransform ==
  /\ prog = "transform"
  /\ ~tr_ret.called
  /\ tr_ret' = [called |-> TRUE] @@
               (IF tr_simple THEN SimplifyReactionData(tr_raw)
                ELSE TransformReactionData(tr_raw))
  /\ UNCHANGED <<prog, writes, kmtVars, ordVars, srVars, tr_raw, tr_simple, callVars>>

(***************************************************************************)
(* ord_scraper.py: the submit loop of run_parallel_scraping.  An index     *)
(* that is None is NoIndex; dataset_ranges is None, or a dict from dataset *)
(* ids to (start, end).                                                    *)
(***************************************************************************)
\* Python's None where an index is expected (ord_scraper.py:505-507)
NoIndex == 0 - 1

\* mutant of SubmitArgs: the global reaction range is tested first
SubmitArgsGlobalFirst(dataset_id, dataset_ranges, reaction_start, reaction_end) ==
  IF reaction_start # NoIndex \/ reaction_end # NoIndex
  THEN [dataset_id |-> dataset_id, start |-> reaction_start, end |-> reaction_end]
  ELSE IF (IF IsNone(dataset_ranges) THEN FALSE ELSE dataset_id \in DOMAIN dataset_ranges)
  THEN [dataset_id |-> dataset_id, start |-> dataset_ranges[dataset_id][1],
        end |-> dataset_ranges[dataset_id][2]]
  ELSE [dataset_id |-> dataset_id, start |-> NoIndex, end |-> NoIndex]

\* ord_scraper.py:525-531: the arguments process_dataset is submitted with
SubmitArgs(dataset_id, dataset_ranges, reaction_start, reaction_end) ==
  IF (IF IsNone(dataset_ranges) THEN FALSE ELSE dataset_id \in DOMAIN dataset_ranges)
  THEN [dataset_id |-> dataset_id, start |-> dataset_ranges[dataset_id][1],
        end |-> dataset_ranges[dataset_id][2]]
  ELSE IF reaction_start # NoIndex \/ reaction_end # NoIndex
  THEN [dataset_id |-> dataset_id, start |-> reaction_start, end |-> reaction_end]
  ELSE [dataset_id |-> dataset_id, start |-> NoIndex, end |-> NoIndex]

\* ord_scraper.py:517-532: nothing is submitted for an empty list, one call
\* per element of dataset_list otherwise, in list order
Submitted(args) ==
  [k \in DOMAIN args.dataset_list |->
     SubmitArgs(args.dataset_list[k], args.dataset_ranges, args.reaction_start,
                args.reaction_end)]

\* the dicts of ranges the loop is called with: None, {}, entries for "a",
\* for "b" and for both, with and without indices
RangeDicts ==
  {NoneDict, EmptyDict,
   [a |-> <<1, 2>>], [a |-> <<NoIndex, NoIndex>>], [b |-> <<2, NoIndex>>],
   [a |-> <<1, 1>>, b |-> <<NoIndex, 3>>]}

DispatchArgs ==
  [dataset_list : SeqsUpTo({"a", "b", "c"}, MaxDispatched),
   dataset_ranges : RangeDicts,
   reaction_start : {NoIndex, 0, 3},
   reaction_end : {NoIndex, 4}]

\* one pass of the submit loop of run_parallel_scraping
CallSubmit ==
  /\ prog = "dispatch"
  /\ ~call_ret.called
  /\ call_ret' = [called |-> TRUE, submitted |-> Submitted(call_args)]
  /\ UNCHANGED <<prog, writes, kmtVars, ordVars, srVars, trVars, call_args>>

(***************************************************************************)
(* ord_scraper.py: get_reaction_ids.  The dataset page lists the reactions *)
(* of the dataset, 1, 2, ..., rows, page by page; the first page shows as  *)
(* many rows as the pagination control is set to.                          *)
(***************************************************************************)
\* Python's truth value of an index argument
Truthy(idx) == idx # NoIndex /\ idx # 0

\* ord_scraper.py:349-353
TargetSize(end_idx) ==
  IF ~Truthy(end_idx) THEN FULL_PAGE_SIZE
  ELSE IF end_idx <= 10 THEN 10
  ELSE IF end_idx <= 25 THEN 25
  ELSE IF end_idx <= 50 THEN 50
  ELSE FULL_PAGE_SIZE

\* ord_scraper.py:355-364: the size of the page after the pagination step;
\* a failure of the selection is swallowed and leaves the page as it was
ShownSize(end_idx, select_ok) ==
  IF TargetSize(end_idx) # DEFAULT_PAGE_SIZE /\ select_ok THEN TargetSize(end_idx)
  ELSE DEFAULT_PAGE_SIZE

\* the hrefs of the anchors of a page that shows the rows from..to, each
\* row holding anchors links to its reaction; junk: the page starts with an
\* anchor whose last path element is no reaction id (0)
PageLinks(from, to, anchors, junk) ==
  (IF junk THEN <<0>> ELSE <<>>)
    \o [k \in 1..((to - from + 1) * anchors) |-> from + ((k - 1) \div anchors)]

\* ord_scraper.py:374-380: the ids of the links, each once, in page order
ReactionIdsOf(links) ==
  LET first == SelectSeq([k \in DOMAIN links |-> k],
                         LAMBDA k : /\ links[k] > 0
                                    /\ \A j \in 1..(k - 1) : links[j] # links[k])
  IN [i \in DOMAIN first |-> links[first[i]]]

\* Python's s[start:end] for 0 <= start and 0 <= end <= len(s)
Slice(s, start, end) == SubSeq(s, start + 1, end)

\* ord_scraper.py:383-386
ApplyRange(ids, start_idx, end_idx) ==
  LET start == IF Truthy(start_idx) /\ start_idx - 1 > 0 THEN start_idx - 1 ELSE 0
      len == Len(ids)
      end == IF Truthy(end_idx) /\ end_idx < len THEN end_idx ELSE len
  IN Slice(ids, start, end)

\* ord_scraper.py:340-390; page: "ok", "timeout" (no link appears, line
\* 369) or "raises" (an exception reaches line 388)
GetReactionIds(args) ==
  IF args.page # "ok" THEN <<>>
  ELSE LET size == ShownSize(args.end_idx, args.select_ok)
           shown == IF args.rows < size THEN args.rows ELSE size
           links == PageLinks(1, shown, args.anchors, args.junk)
       IN ApplyRange(ReactionIdsOf(links), args.start_idx, args.end_idx)

\* the dataset sizes explored: around every page size, up to MaxRows
DatasetSizes ==
  {n \in 0..MaxRows : \E size \in {1, 10, 25, 50, FULL_PAGE_SIZE} : n \in (size - 1)..(size + 1)}

StartIndices == {NoIndex, 0, 1, 2, 11, FULL_PAGE_SIZE + 1}

EndIndices == {NoIndex, 0, 1, 2, 10, 11, 25, 26, 50, 51, FULL_PAGE_SIZE, FULL_PAGE_SIZE + 1}

\* the calls explored: every range on every dataset of a healthy site; small
\* datasets with two anchors per row and a foreign anchor; a pagination
\* control that fails; a page that does not load
ReactionIdsArgs ==
  [rows : DatasetSizes, anchors : {1}, junk : {FALSE}, select_ok : {TRUE},
   page : {"ok"}, start_idx : StartIndices, end_idx : EndIndices]
  \cup [rows : {0, 1, 11}, anchors : {2}, junk : BOOLEAN, select_ok : {TRUE},
        page : {"ok"}, start_idx : {NoIndex, 1, 2}, end_idx : {NoIndex, 2, 11}]
  \cup [rows : {9, 26}, anchors : {1}, junk : {FALSE}, select_ok : {FALSE},
        page : {"ok"}, start_idx : {NoIndex}, end_idx : {NoIndex, 10, 26}]
  \cup [rows : {0, 11}, anchors : {1}, junk : {FALSE}, select_ok : {TRUE},
        page : {"timeout", "raises"}, start_idx : {NoIndex}, end_idx : {NoIndex}]

\* one call get_reaction_ids(driver, dataset_id, start_idx, end_idx)
CallGetReactionIds ==
  /\ prog = "reaction_ids"
  /\ ~call_ret.called
  /\ call_ret' = [called |-> TRUE, value |-> GetReactionIds(call_args)]
  /\ UNCHANGED <<prog, writes, kmtVars, ordVars, srVars, trVars, call_args>>

(***************************************************************************)
(* ord_scraper.py: get_all_dataset_ids.  The browse page lists the         *)
(* datasets 1, 2, ..., entries, page by page; its pagination text reports  *)
(* a number of entries (the page-count oracle), or cannot be read.  The    *)
(* control to the next page is disabled on the last page ("no_click"), is  *)
(* absent there ("missing"), or stays enabled and shows the last page      *)
(* again ("stuck").                                                        *)
(***************************************************************************)
\* ord_scraper.py:263-272: the page size after the pagination step
BrowseSize(select_ok) == IF select_ok THEN FULL_PAGE_SIZE ELSE DEFAULT_PAGE_SIZE

\* number of pages of a listing of n entries, size per page
PagesOf(n, size) == (n + size - 1) \div size

\* ord_scraper.py:298-302: the anchors the page-th page scanned shows
BrowseLinks(args, page) ==
  LET size == BrowseSize(args.select_ok)
      last == PagesOf(args.entries, size)
      at == IF page < last THEN page ELSE last
      to == IF at * size < args.entries THEN at * size ELSE args.entries
  IN IF args.entries = 0 THEN <<>>
     ELSE PageLinks((at - 1) * size + 1, to, args.anchors, FALSE)

\* ord_scraper.py:282-285: end_idx after the oracle has been read
ClampedEnd(end_idx, total_entries) ==
  IF total_entries # NoIndex /\ Truthy(end_idx) /\ end_idx > total_entries
  THEN total_entries
  ELSE end_idx

\* ord_scraper.py:275-288: total_pages, NoIndex when the oracle is not read
TotalPages(total_entries) ==
  IF total_entries = NoIndex THEN NoIndex ELSE (total_entries + 99) \div 100

\* ord_scraper.py:304-310: the ids after the links of one page; the loop is
\* left at the append that brings the list to end_idx ids
CollectIds(dataset_ids, links, end_idx) ==
  LET seen == Range(dataset_ids)
      fresh == SelectSeq([k \in DOMAIN links |-> k],
                         LAMBDA k : /\ links[k] \notin seen
                                    /\ \A j \in 1..(k - 1) : links[j] # links[k])
      all == dataset_ids \o [i \in DOMAIN fresh |-> links[fresh[i]]]
      at == IF Len(dataset_ids) >= end_idx THEN Len(dataset_ids) + 1 ELSE end_idx
  IN IF Truthy(end_idx) /\ Len(all) >= at
     THEN [ids |-> SubSeq(all, 1, at), should_stop |-> TRUE]
     ELSE [ids |-> all, should_stop |-> FALSE]

\* ord_scraper.py:315, the test on total_pages
OracleStops(page, total_pages) == Truthy(total_pages) /\ page >= total_pages

\* ord_scraper.py:295-327, from the page-th iteration of the while loop on;
\* the result tells whether the loop was left within MaxPages pages
RECURSIVE ScanFrom(_, _, _, _, _)
ScanFrom(args, page, dataset_ids, end_idx, total_pages) ==
  LET links == BrowseLinks(args, page)
      got == CollectIds(dataset_ids, links, end_idx)
      last == PagesOf(args.entries, BrowseSize(args.select_ok))
  IN IF links = <<>>
     THEN [stopped |-> TRUE, dataset_ids |-> dataset_ids, pages |-> page]
     ELSE IF got.should_stop \/ OracleStops(page, total_pages)
     THEN [stopped |-> TRUE, dataset_ids |-> got.ids, pages |-> page]
     ELSE IF page >= last /\ args.control # "stuck"
     THEN [stopped |-> TRUE, dataset_ids |-> got.ids, pages |-> page]
     ELSE IF page >= MaxPages
     THEN [stopped |-> FALSE, dataset_ids |-> got.ids, pages |-> page]
     ELSE ScanFrom(args, page + 1, got.ids, end_idx, total_pages)

\* ord_scraper.py:255-333, the oracle reporting total_entries (NoIndex: it
\* cannot be read)
GetAllDatasetIds(args, total_entries) ==
  LET scan == ScanFrom(args, 1, <<>>, ClampedEnd(args.end_idx, total_entries),
                       TotalPages(total_entries))
      start == IF Truthy(args.start_idx) /\ args.start_idx - 1 > 0
               THEN args.start_idx - 1 ELSE 0
  IN [stopped |-> scan.stopped, pages |-> scan.pages,
      value |-> Slice(scan.dataset_ids, start, Len(scan.dataset_ids))]

\* what the oracle can report of a listing of n entries
OracleReports == {"unavailable", "correct", "fewer", "more"}

Reported(report, n) ==
  IF report = "unavailable" THEN NoIndex
  ELSE IF report = "correct" THEN n
  ELSE IF report = "fewer" THEN n \div 2
  ELSE n + FULL_PAGE_SIZE

\* the discoveries explored: listings of up to three pages at either page
\* size, every kind of control on the last page, ranges within and beyond
\* the listing
DatasetIdsArgs ==
  [entries : {0, 1, 26, FULL_PAGE_SIZE, FULL_PAGE_SIZE + 50}, anchors : {1, 2},
   select_ok : BOOLEAN, control : {"no_click", "missing", "stuck"},
   start_idx : {NoIndex, 1, 2, 26},
   end_idx : {NoIndex, 2, 26, FULL_PAGE_SIZE + 50, 2 * FULL_PAGE_SIZE}]

\* get_all_dataset_ids(start_idx, end_idx), called once under each report
\* of the oracle on the same listing
CallGetAllDatasetIds ==
  /\ prog = "dataset_ids"
  /\ ~call_ret.called
  /\ call_ret' = [called |-> TRUE,
                  ret |-> [r \in OracleReports |->
                             GetAllDatasetIds(call_args,
                                              Reported(r, call_args.entries))]]
  /\ UNCHANGED <<prog, writes, kmtVars, ordVars, srVars, trVars, call_args>>

(***************************************************************************)
(* fetch_reaction_data, called on the detail links of one page.  A         *)
(* response of session.get is an exception or a status code with a text;   *)
(* the text of a detail page is its anchors, the text of the payload       *)
(* resource its tag-delimited elements.  A URL or a text is a sequence of  *)
(* pieces, so that a prefix can be tested and a blank stripped.            *)
(***************************************************************************)
HTTP_OK == 200

BASE_URL == "https://kmt.vander-lingen.nl"

Raises == [raises |-> TRUE]

Response(status_code, text) ==
  [raises |-> FALSE, status_code |-> status_code, text |-> text]

\* str.strip() on a text given piece by piece
RECURSIVE Strip(_)
Strip(text) ==
  IF text = <<>> THEN text
  ELSE IF Head(text) = " " THEN Strip(Tail(text))
  ELSE IF text[Len(text)] = " " THEN Strip(SubSeq(text, 1, Len(text) - 1))
  ELSE text

\* html.unescape
Unescape(text) ==
  [k \in DOMAIN text |-> IF text[k] = "&gt;" THEN ">"
                         ELSE IF text[k] = "&amp;" THEN "&"
                         ELSE text[k]]

\* re.search(<tag>(.*?)</tag>): the first element of that tag, or None
SearchTag(tag, elements) ==
  LET at == {k \in DOMAIN elements : elements[k].tag = tag} IN
  IF at = {} THEN NoneDict
  ELSE elements[CHOOSE k \in at : \A j \in at : k <= j]

ExtractTag(tag, elements) ==
  LET m == SearchTag(tag, elements) IN
  IF IsNone(m) THEN <<NoneStr>> ELSE Unescape(Strip(m.text))

ParseChemicalData(raw_content) ==
  LET IsMolecule(e) == e.tag = "molecule"
      molecules == SelectSeq(raw_content, IsMolecule) IN
  [reaction_smiles |-> ExtractTag("reactionSmiles", raw_content),
   molecules |-> [k \in DOMAIN molecules |->
                    [role |-> ExtractTag("role", molecules[k].text),
                     smiles |-> ExtractTag("smiles", molecules[k].text),
                     name |-> ExtractTag("name", molecules[k].text)]]]

\* soup.find('a', string="XML"): the first anchor with that text, or None
FindAnchor(anchors, string) ==
  LET at == {k \in DOMAIN anchors : anchors[k].string = string} IN
  IF at = {} THEN NoneDict
  ELSE anchors[CHOOSE k \in at : \A j \in at : k <= j]

\* the anchor's href attribute: None without the attribute, and falsy when empty
Href(anchor) == Get(anchor, "href", <<>>)

\* the address the payload is asked at
SourceUrl(href) == IF Head(href) = "/" THEN <<BASE_URL>> \o href ELSE href

\* session.get(source_url): an address without scheme is refused with an
\* exception, any other is answered by the server
SessionGet(url, answer) == IF Head(url) = "/" THEN Raises ELSE answer

Returned(value) == [raised |-> FALSE, value |-> value]

Raised == [raised |-> TRUE, value |-> NoneDict]

\* the try block of fetch_reaction_data, and the return None it falls to
FetchBody(detail_url, site) ==
  LET resp == site.detail IN
  IF resp.raises THEN Raised
  ELSE IF resp.status_code # HTTP_OK THEN Returned(NoneDict)
  ELSE
    LET source_anchor == FindAnchor(resp.text, "XML") IN
    IF IsNone(source_anchor) \/ Href(source_anchor) = <<>>
    THEN Returned(NoneDict)
    ELSE
      LET source_resp == SessionGet(SourceUrl(Href(source_anchor)), site.source) IN
      IF source_resp.raises THEN Raised
      ELSE IF source_resp.status_code = HTTP_OK
      THEN LET parsed == ParseChemicalData(source_resp.text) IN
           Returned([reaction_page_link |-> detail_url,
                     reaction_smiles |-> parsed.reaction_smiles,
                     molecules |-> parsed.molecules])
      ELSE Returned(NoneDict)

\* mutant of FetchReactionData: without the except clause
FetchReactionDataUnguarded(detail_url, site) == FetchBody(detail_url, site)

\* fetch_reaction_data(detail_url): an exception of the try block is
\* swallowed and None returned
FetchReactionData(detail_url, site) ==
  LET out == FetchBody(detail_url, site) IN
  IF out.raised THEN Returned(NoneDict) ELSE out

\* the loop over detail_links of mine_paper_data: a truthy rxn_data is
\* appended and counted; an exception leaving fetch_reaction_data would end
\* the loop
RECURSIVE FetchAll(_, _, _)
FetchAll(sites, d_url, acc) ==
  IF d_url > Len(sites) THEN acc
  ELSE
    LET out == FetchReactionData(d_url, sites[d_url])
        outs == Append(acc.outs, out) IN
    IF out.raised THEN [acc EXCEPT !.outs = outs, !.raised = TRUE]
    ELSE IF ~IsNone(out.value)
    THEN FetchAll(sites, d_url + 1,
                  [acc EXCEPT !.outs = outs,
                              !.extracted_reactions = Append(@, out.value),
                              !.scanned_count = @ + 1])
    ELSE FetchAll(sites, d_url + 1, [acc EXCEPT !.outs = outs])

\* the detail pages, the payloads and the answers of the server
PayloadUrl == <<BASE_URL, "/", "data/1.xml">>

DetailPages ==
  { <<[string |-> "PDF", href |-> <<"/", "paper.pdf">>]>>,
    <<[string |-> "XML"]>>,
    <<[string |-> "XML", href |-> <<>>]>>,
    <<[string |-> "PDF", href |-> <<"/", "paper.pdf">>],
      [string |-> "XML", href |-> Tail(PayloadUrl)]>>,
    <<[string |-> "XML", href |-> PayloadUrl]>> }

Payloads ==
  { <<>>,
    <<[tag |-> "reactionSmiles", text |-> <<" ", "C", "&gt;", "&gt;", "O", " ">>],
      [tag |-> "molecule",
       text |-> <<[tag |-> "role", text |-> <<"product">>],
                  [tag |-> "smiles", text |-> <<"O">>]>>]>> }

DetailResponses ==
  {Raises, Response(404, <<>>)} \cup {Response(HTTP_OK, p) : p \in DetailPages}

SourceResponses ==
  {Raises, Response(404, <<>>)} \cup {Response(HTTP_OK, p) : p \in Payloads}

Sites == [detail : DetailResponses, source : SourceResponses]

GoodSite ==
  [detail |-> Response(HTTP_OK, <<[string |-> "XML", href |-> PayloadUrl]>>),
   source |-> Response(HTTP_OK, <<>>)]

\* a page of one or two detail links
FetchArgs ==
  {[sites |-> <<>>]} \cup {[sites |-> <<s>>] : s \in Sites}
  \cup {[sites |-> <<s, GoodSite>>] : s \in Sites}
  \cup {[sites |-> <<GoodSite, s>>] : s \in Sites}

CallFetchReactionData ==
  /\ prog = "fetch"
  /\ ~call_ret.called
  /\ LET done == FetchAll(call_args.sites, 1,
                          [outs |-> <<>>, extracted_reactions |-> <<>>,
                           scanned_count |-> 0, raised |-> FALSE]) IN
     call_ret' = [called |-> TRUE, outs |-> done.outs,
                  extracted_reactions |-> done.extracted_reactions,
                  scanned_count |-> done.scanned_count,
                  raised |-> done.raised]
  /\ UNCHANGED <<prog, writes, kmtVars, ordVars, srVars, trVars, call_args>>

(***************************************************************************)
(* The functions called on their own, through call_args and call_ret.      *)
(***************************************************************************)
CallProgs == {"dispatch", "reaction_ids", "dataset_ids", "fetch"}

ArgsOf(p) ==
  IF p = "dispatch" THEN DispatchArgs
  ELSE IF p = "reaction_ids" THEN ReactionIdsArgs
  ELSE IF p = "dataset_ids" THEN DatasetIdsArgs
  ELSE FetchArgs

CallInit ==
  /\ call_args \in ArgsOf(prog)
  /\ call_ret = [called |-> FALSE]

CallIdle ==
  /\ call_args = EmptyDict
  /\ call_ret = [called |-> FALSE]

Init ==
  /\ writes = 0
  /\ \/ prog = "kmt" /\ KmtInit /\ OrdIdle /\ SrIdle /\ TrIdle /\ CallIdle
     \/ prog = "ord" /\ KmtIdle /\ OrdInit /\ SrIdle /\ TrIdle /\ CallIdle
     \/ prog = "scrape" /\ KmtIdle /\ OrdIdle /\ SrInit /\ TrIdle /\ CallIdle
     \/ prog = "transform" /\ KmtIdle /\ OrdIdle /\ SrIdle /\ TrInit /\ CallIdle
     \/ prog \in CallProgs /\ KmtIdle /\ OrdIdle /\ SrIdle /\ TrIdle /\ CallInit

Next ==
  \/ CollectArchive
  \/ MinePage
  \/ NextPaper
  \/ SaveResults
  \/ CallScrapeReaction
  \/ CallTransform
  \/ CallSubmit
  \/ CallGetReactionIds
  \/ CallGetAllDatasetIds
  \/ CallFetchReactionData
  \/ DiscoverDatasets
  \/ \E i \in Tasks : StartDataset(i)
  \/ \E i \in Tasks : Discover(i)
  \/ \E i \in Tasks : ProcessItem(i)
  \/ \E i \in Tasks : FinishDataset(i)
  \/ \E i \in Tasks : Collect(i)
  \/ ReturnResults
  \/ SaveOutput

Spec == Init /\ [][Next]_vars

\* the runs of Spec and those over a dataset list with a repeated id
NextRepeat == Next \/ DiscoverRepeated

SpecRepeat == Init /\ [][NextRepeat]_vars

(***************************************************************************)
(* Claims about the pagination walk, mine_paper_data.                      *)
(***************************************************************************)

\* C1: the number of items accumulated for one paper never exceeds 200, the
\* accumulation stopping exactly at 200 even when further pages are available.
C1_CapNeverExceeded ==
  prog = "kmt" => /\ scanned_count <= LIMIT
                  /\ Len(extracted_reactions) <= LIMIT

\* C2: in one walk no item URL is fetched, and none is accumulated, more than
\* once (links repeated within a page or on a later page included).
C2_NoItemTwice ==
  prog = "kmt" => NoDup(fetched) /\ NoDup(extracted_reactions)

\* C3: the walk stops on runaway growth whatever the detail fetches return.
\* The only exit of the loop that bounds a listing which keeps supplying fresh
\* pages with fresh links is the cap, so the claim requires that a walk still
\* going on to a further page has discovered at most 200 items, whether or
\* not their fetches succeeded.
C3_GrowthIsCapped ==
  (prog = "kmt" /\ stop = "none") => Len(fetched) <= LIMIT

\* C4: when a page's detail_links equal, as a whole sequence, those of the
\* page before it, the walk stops on that page: none of its items is fetched,
\* its next link is not followed, and the result holds only items of the
\* earlier pages.
C4_StagnationStops ==
  prog = "kmt" =>
    \A i \in 2..Len(seen_pages) :
      seen_pages[i] = seen_pages[i - 1] =>
        /\ i = Len(seen_pages)
        /\ stop = "identical"
        /\ fetched = Flatten(SubSeq(seen_pages, 1, i - 1))
        /\ Range(extracted_reactions) \subseteq Range(fetched)
        /\ Len(rendered) = i
        /\ current_url = rendered[i]

C4_Witness ==
  /\ prog = "kmt" /\ listing = "free"
  /\ stop = "identical"
  /\ Len(seen_pages) = 2
  /\ seen_pages[1] = <<1, 2>> /\ seen_pages[2] = <<1, 2>>
  /\ extracted_reactions = <<1, 2>>

\* C5: no listing URL is rendered twice; the walk goes on to a further page
\* only through a button whose target is not yet visited, so a page whose
\* buttons all point back to visited URLs ends the walk there, no loop.
C5_LoopGuard ==
  prog = "kmt" =>
    /\ NoDup(rendered)
    /\ Range(rendered) \subseteq visited_pages
    /\ stop = "none" => current_url \notin visited_pages
    /\ (stop = "none" /\ page_count > 1) => current_url \in nav_hrefs

C5_Witness ==
  /\ prog = "kmt" /\ listing = "free"
  /\ rendered = <<1, 2>>
  /\ nav_hrefs = {1}
  /\ stop = "nonext"
  /\ fetched # <<>>

(***************************************************************************)
(* Claims about the dataset pipeline of ord_scraper.py.                    *)
(***************************************************************************)
Positions(n) == [k \in 1..n |-> k]

\* the canonical records of the items of call i whose site answer is in keep,
\* in discovery order
CanonicalOf(i, keep) ==
  LET idx == SelectSeq(Positions(Len(reaction_ids[i])), LAMBDA k : served[i][k] \in keep)
  IN [j \in DOMAIN idx |->
        [reaction_id |-> reaction_ids[i][idx[j]],
         schema |-> IF use_simple_format THEN "simplified" ELSE "detailed"]]

FetchedOk(i) == {k \in DOMAIN served[i] : served[i][k] # "fail"}

\* call i ran its item loop to the end and returned its result
RanToEnd(i) ==
  /\ future[i].state = "result"
  /\ failed_at[i] = ""
  /\ reaction_ids[i] # <<>>

\* C6 as stated: of n discovered items with k successful fetches,
\* process_dataset reports total n and successful_scrapes = k, and the records
\* persisted for the collection are the canonical records of the k successful
\* items, in discovery order.
C6_AllSuccessfulPersisted ==
  (prog = "ord" /\ main_pc = "saved") =>
    \A i \in Tasks :
      RanToEnd(i) =>
        /\ future[i].value.total_reactions = Len(reaction_ids[i])
        /\ future[i].value.successful_scrapes = Cardinality(FetchedOk(i))
        /\ formatted_output[dataset_list[i]].reactions = CanonicalOf(i, {"good", "odd"})

\* C6 amended: ... and the records persisted are the canonical records of the
\* successful items whose transform did not raise, in discovery order.
C6_TransformedPersisted ==
  (prog = "ord" /\ main_pc = "saved") =>
    \A i \in Tasks :
      RanToEnd(i) =>
        /\ future[i].value.total_reactions = Len(reaction_ids[i])
        /\ future[i].value.successful_scrapes = Cardinality(FetchedOk(i))
        /\ formatted_output[dataset_list[i]].reactions = CanonicalOf(i, {"good"})

C6_Witness ==
  /\ prog = "ord" /\ main_pc = "saved"
  /\ dataset_list = <<"big">>
  /\ served[1] = <<"fail", "good", "fail", "fail", "good">>
  /\ RanToEnd(1)
  /\ future[1].value.successful_scrapes = 2
  /\ Len(formatted_output["big"].reactions) = 2

\* C7: a raw record whose fetch failed is never passed to a transform
\* function; it is kept in the attempt list of its collection as a failed
\* attempt, and is not among the canonical records of the output document.
C7_FailedNeverTransformed ==
  prog = "ord" =>
    /\ \A c \in transformed : c.record.success
    /\ \A i \in Tasks : \A k \in DOMAIN served[i] :
         served[i][k] = "fail" =>
           /\ k \in DOMAIN reactions[i]
           /\ reactions[i][k].reaction_id = scraped[i][k]
           /\ ~reactions[i][k].success
           /\ "formatted_data" \notin DOMAIN reactions[i][k]
           /\ RanToEnd(i) => future[i].value.reactions[k] = reactions[i][k]
    /\ main_pc = "saved" =>
         \A i \in Tasks :
           LET recs == formatted_output[dataset_list[i]].reactions IN
           \A j \in DOMAIN recs :
             \E k \in FetchedOk(i) : scraped[i][k] = recs[j].reaction_id

C7_Witness ==
  /\ prog = "ord" /\ main_pc = "saved"
  /\ dataset_list = <<"big">>
  /\ served[1] = <<"good", "fail", "good", "fail", "fail">>
  /\ RanToEnd(1)
  /\ Len(formatted_output["big"].reactions) = 2

\* the attempts scrape_reaction makes for the outcomes outs: up to and
\* including the first that succeeds, all of them when none does
FirstOk(outs) == {a \in DOMAIN outs : outs[a] = "ok"}

\* what C8 says of a call that returned, with the error text err
ScrapeContract(err) ==
  (prog = "scrape" /\ sr_ret.called) =>
    LET ok == FirstOk(sr_outs)
        n == IF ok = {} THEN sr_max_retries ELSE Min(ok)
    IN /\ sr_ret.made = Positions(n)
       /\ Len(sr_ret.made) <= sr_max_retries
       /\ ok # {} => /\ sr_ret.ret.success
                     /\ sr_ret.ret.reaction_id = 1
                     /\ sr_ret.ret.data \in Shapes
       /\ ok = {} => sr_ret.ret = [reaction_id |-> 1, data |-> "None",
                                   success |-> FALSE, error |-> err]

\* C8 as stated: the attempts are made one after another, the first success
\* is returned at once, and after max_retries failed attempts the call
\* returns success false, no data and the error 'max retries exceeded'.
C8_ScrapeContractAsStated == ScrapeContract("max retries exceeded")

\* C8 amended: the same, the error text being 'Max retries exceeded'.
C8_ScrapeContract == ScrapeContract("Max retries exceeded")

C8_Witness ==
  /\ prog = "scrape" /\ sr_ret.called
  /\ sr_max_retries = MAX_RETRIES
  /\ sr_outs = <<"timeout", "no_marker", "bad_json">>
  /\ sr_ret.made = <<1, 2, 3>>
  /\ ~sr_ret.ret.success

\* the pages of the walk whose details were processed (lines 176-180)
ProcessedPages ==
  IF stop \in {"identical", "empty", "error:cookies"}
  THEN SubSeq(seen_pages, 1, Len(seen_pages) - 1)
  ELSE seen_pages

\* C9: within one collection a failed fetch or transform of an item never
\* keeps the later items from being attempted: process_dataset attempts
\* every discovered item, mine_paper_data every detail link of every page it
\* processes.
C9_EveryItemAttempted ==
  /\ prog = "ord" =>
       \A i \in Tasks :
         /\ Len(scraped[i]) <= Len(reaction_ids[i])
         /\ scraped[i] = SubSeq(reaction_ids[i], 1, Len(scraped[i]))
         /\ Len(reactions[i]) = Len(scraped[i])
         /\ (future[i].state = "result" /\ "error" \notin DOMAIN future[i].value)
              => scraped[i] = reaction_ids[i]
  /\ prog = "kmt" =>
       /\ fetched = Flatten(ProcessedPages)
       /\ Len(extracted_reactions) = scanned_count
       /\ scanned_count <= Len(fetched)

C9_Witness ==
  /\ prog = "ord"
  /\ dataset_list = <<"big">>
  /\ served[1] = <<"fail", "odd", "good", "fail", "good">>
  /\ scraped[1] = <<1, 2, 3, 4, 5>>
  /\ RanToEnd(1)

\* the entry of results appended for call i
PosOf(i) == CHOOSE j \in DOMAIN collected : collected[j] = i
Entry(i) == results[PosOf(i)]

\* every dispatched collection has been collected, once, under its own id
AllCollected ==
  /\ Len(results) = Len(dataset_list)
  /\ Len(collected) = Len(dataset_list)
  /\ \A i \in Tasks : \E j \in DOMAIN collected : collected[j] = i
  /\ \A i \in Tasks : /\ pc[i] = "collected"
                      /\ Get(Entry(i), "dataset_id", "") = dataset_list[i]

\* C10 as stated: a collection whose pipeline failed at any point has an
\* errored result with no records in results, and every other collection is
\* processed to completion and present.
C10_FailureIsErroredResult ==
  (prog = "ord" /\ main_pc \in {"returned", "saved"}) =>
    /\ AllCollected
    /\ \A i \in Tasks :
         IF failed_at[i] # ""
         THEN /\ "error" \in DOMAIN Entry(i)
              /\ Get(Entry(i), "reactions", <<>>) = <<>>
         ELSE /\ Entry(i) = DatasetResult(dataset_list[i], reactions[i])
              /\ scraped[i] = reaction_ids[i]

\* C10 amended: a collection whose pipeline failed has a result with no
\* records: it carries an error field when the exception reached the handler
\* of process_dataset or of the orchestrator (session not acquired, a
\* statement of the try block, driver.quit), and is the ordinary empty result
\* when get_reaction_ids swallowed the failure of the listing; every other
\* collection is processed to completion and present.
C10_FailureIsIsolated ==
  (prog = "ord" /\ main_pc \in {"returned", "saved"}) =>
    /\ AllCollected
    /\ \A i \in Tasks :
         CASE failed_at[i] \in {"driver", "quit"} ->
                Entry(i) = [dataset_id |-> dataset_list[i], error |-> "error"]
           [] failed_at[i] = "body" ->
                /\ "error" \in DOMAIN Entry(i)
                /\ Entry(i).reactions = <<>>
           [] failed_at[i] = "listing" ->
                Entry(i) = DatasetResult(dataset_list[i], <<>>)
           [] OTHER ->
                /\ Entry(i) = DatasetResult(dataset_list[i], reactions[i])
                /\ scraped[i] = reaction_ids[i]

C10_Witness ==
  /\ prog = "ord" /\ main_pc = "returned"
  /\ dataset_list = <<"a", "b", "c">>
  /\ failed_at = <<"driver", "", "body">>
  /\ served[2] = <<"good">>
  /\ collected = <<3, 1, 2>>
  /\ "formatted_data" \in DOMAIN results[3].reactions[1]

(***************************************************************************)
(* Claims about a whole run: the output file, the sessions, the pool.      *)
(***************************************************************************)
\* the program has come to its end, by a return or by an exception
Exited ==
  \/ prog = "kmt" /\ kmt_pc \in {"saved", "nopapers", "crashed"}
  \/ prog = "ord" /\ main_pc \in {"saved", "crashed"}

\* C11: in every run that is not killed (a run in which collection discovery
\* raises, finds no collection, or a collection's pipeline raises included)
\* the program has written the output document when it exits.
C11_WrittenBeforeExit == Exited => writes >= 1

\* C12: the output document is written at most once, and only after every
\* dispatched collection task has finished: none is queued or in flight when
\* the write happens.
C12_WrittenOnceAfterAll ==
  /\ writes <= 1
  /\ (prog = "ord" /\ writes = 1) =>
       /\ main_pc = "saved"
       /\ Len(results) = Len(dataset_list)
       /\ \A i \in Tasks : /\ pc[i] = "collected"
                            /\ future[i].state # "pending"
                            /\ worker[i] = 0
  /\ (prog = "kmt" /\ writes = 1) =>
       /\ kmt_pc = "saved"
       /\ Len(walks) = Len(target_papers)
       /\ paper_idx = Len(target_papers)
       /\ stop \notin {"none", "idle"}

C12_Witness ==
  /\ prog = "ord" /\ writes = 1
  /\ dataset_list = <<"a", "b", "c">>
  /\ collected = <<2, 3, 1>>
  /\ failed_at[1] = "body"

C14_BoundedWorkers ==
  prog = "ord" =>
    /\ Cardinality(Running) <= max_workers
    /\ Cardinality({i \in Tasks : driver[i] = "open"}) <= max_workers
    /\ {i \in Tasks : driver[i] = "open"} \subseteq Running
    /\ \A i \in Tasks :
         IF i \in Running THEN worker[i] \in 1..max_workers ELSE worker[i] = 0
    /\ \A i, j \in Running : i # j => worker[i] # worker[j]

C14_Witness ==
  /\ prog = "ord" /\ main_pc = "pool"
  /\ dataset_list = <<"a", "b", "c">>
  /\ Cardinality(Running) = max_workers
  /\ pc[3] = "queued"
  /\ driver[1] = "open" /\ driver[2] = "open"

\* the orders in which n futures can complete
Perms(n) == {p \in [1..n -> 1..n] : \A i, j \in 1..n : i # j => p[i] # p[j]}

\* C15: for a fixed list of dispatched collections and fixed results of the
\* tasks, the persisted document is the same mapping from collection id to
\* result for every order in which the pool completes the tasks, a list that
\* holds the same collection id more than once included.
C15_OrderIrrelevant ==
  (prog = "ord" /\ main_pc = "saved") =>
    \A p \in Perms(Len(results)) :
      FormatOutput([k \in 1..Len(results) |-> results[p[k]]]) = formatted_output

\* C16: the pagination walk is deterministic in its inputs: two calls of
\* mine_paper_data fed the same sequence of pages (detail links, next link)
\* and the same detail-fetch outcomes return the same sequence of items and
\* leave the loop by the same exit.
C16_WalkDeterministic ==
  prog = "kmt" =>
    \A a, b \in DOMAIN walks :
      (target_papers[a] = target_papers[b] /\ target_papers[a].listing = "tape")
        => walks[a] = walks[b]

C16_Witness ==
  /\ prog = "kmt" /\ kmt_pc = "saved"
  /\ Len(walks) = 2
  /\ target_papers[1] = target_papers[2]
  /\ walks[2] = [items |-> <<1, 2>>, stop |-> "nonext"]
  /\ tape[2].nav_btns = <<1>>

(***************************************************************************)
(* Claims about the lookup tables and the transform functions.             *)
(***************************************************************************)
\* the record passed has a data object
HasData(raw) ==
  IF IsNone(raw) THEN FALSE
  ELSE IF "data" \notin DOMAIN raw THEN FALSE
  ELSE ~IsNone(raw.data)

\* the components of the record passed and of the record returned, input
\* after input
RawComponents == ComponentsOf(tr_raw.data)

OutComponents ==
  IF tr_simple
  THEN Flatten([k \in DOMAIN tr_ret.value.inputs |-> tr_ret.value.inputs[k].components])
  ELSE Flatten([k \in DOMAIN tr_ret.value.inputsMap |->
                  tr_ret.value.inputsMap[k][2].components])

RawProducts == ProductsOf(tr_raw.data)

\* the names the tables document, by code from 0
RoleNames ==
  <<"UNSPECIFIED", "REACTANT", "REAGENT", "SOLVENT", "CATALYST", "WORKUP",
    "INTERNAL_STANDARD", "AUTHENTIC_STANDARD", "PRODUCT", "BYPRODUCT", "SIDE_PRODUCT">>

IdentifierTypeNames ==
  <<"UNSPECIFIED", "CUSTOM", "SMILES", "INCHI", "MOLBLOCK", "FINGERPRINT", "NAME",
    "IUPAC_NAME", "CAS_NUMBER">>

UnitNames ==
  [mass |-> <<"UNSPECIFIED", "KILOGRAM", "GRAM", "MILLIGRAM", "MICROGRAM">>,
   volume |-> <<"UNSPECIFIED", "LITER", "MILLILITER", "MICROLITER", "NANOLITER">>,
   moles |-> <<"UNSPECIFIED", "MOLE", "MILLIMOLE", "MICROMOLE", "NANOMOLE">>]

\* the documented name of the code carried by field of obj: the table's
\* string for a code of the table, "UNKNOWN" for any other code, missing for
\* an object without the field
NameOf(names, obj, field, missing) ==
  IF field \notin DOMAIN obj THEN missing
  ELSE IF obj[field] \in 0..(Len(names) - 1) THEN names[obj[field] + 1]
  ELSE "UNKNOWN"

\* the identifiers returned for item carry the documented type names
TypesNamed(item, out) ==
  LET ids == Get(item, "identifiersList", <<>>) IN
  /\ Len(out.identifiers) = Len(ids)
  /\ \A i \in DOMAIN ids :
       out.identifiers[i].type = NameOf(IdentifierTypeNames, ids[i], "type", "UNSPECIFIED")

\* C17: the role, identifier-type and unit lookups of the transforms return
\* the table's string for every code of the table (roles 0-10, identifier
\* types 0-8, units 0-4 of each quantity kind) and "UNKNOWN" for every other
\* integer code; a missing code field gives "UNKNOWN" (role) or "UNSPECIFIED"
\* (identifier type, unit); no lookup raises.
C17_LookupsTotal ==
  (prog = "transform" /\ tr_ret.called /\ HasData(tr_raw)) =>
    /\ ~tr_simple => ~tr_ret.raised
    /\ ~tr_ret.raised =>
         /\ Len(OutComponents) = Len(RawComponents)
         /\ \A k \in DOMAIN RawComponents :
              LET c == RawComponents[k]
                  o == OutComponents[k]
              IN IF tr_simple
                 THEN o.role = NameOf(RoleNames, c, "reactionRole", "UNKNOWN")
                 ELSE /\ o.reaction_role = NameOf(RoleNames, c, "reactionRole", "UNKNOWN")
                      /\ TypesNamed(c, o)
                      /\ \A q \in DOMAIN o.amount :
                           o.amount[q].units =
                             NameOf(UnitNames[q], c.amount[q], "units", "UNSPECIFIED")
         /\ ~tr_simple =>
              \A k \in DOMAIN RawProducts :
                LET p == RawProducts[k]
                    o == tr_ret.value.outcomes[k]
                    ms == Get(p, "measurementsList", <<>>)
                IN /\ TypesNamed(p, o)
                   /\ \A j \in DOMAIN ms :
                        "mass" \in DOMAIN o.measurements[j] =>
                          o.measurements[j].mass.units =
                            NameOf(UnitNames.mass, ms[j].amount.mass, "units", "UNSPECIFIED")

C17_Witness ==
  /\ prog = "transform" /\ tr_ret.called /\ ~tr_simple
  /\ tr_raw = RawOf(OneInput(CodedComponent(9, "mass")), OneOutcome(CodedProduct(9)))
  /\ tr_ret.value.inputsMap[1][2].components[1] =
       [identifiers |-> <<[type |-> "UNKNOWN", value |-> "CCO"]>>,
        amount |-> [mass |-> [value |-> "1", units |-> "UNKNOWN"]],
        reaction_role |-> "BYPRODUCT"]

\* what C18 says of a call of transform_reaction_data, the input entries
\* being returned under field
DetailedContract(field) ==
  (prog = "transform" /\ tr_ret.called /\ ~tr_simple /\ HasData(tr_raw)) =>
    /\ ~tr_ret.raised
    /\ field \in DOMAIN tr_ret.value
    /\ LET ins == Get(tr_raw.data, "inputsMap", <<>>)
           outs == tr_ret.value[field]
       IN /\ Len(outs) = Len(ins)
          /\ \A k \in DOMAIN ins :
               /\ outs[k][1] = ins[k][1]
               /\ Len(outs[k][2].components)
                    = Len(Get(ins[k][2], "componentsList", <<>>))
    /\ Len(tr_ret.value.outcomes) = Len(RawProducts)
    /\ \A k \in DOMAIN RawProducts :
         /\ tr_ret.value.outcomes[k].is_desired_product
              = Get(RawProducts[k], "isDesiredProduct", FALSE)
         /\ Len(tr_ret.value.outcomes[k].identifiers)
              = Len(Get(RawProducts[k], "identifiersList", <<>>))
    /\ tr_raw = Fixture =>
         /\ tr_ret.value[field][1] =
              <<"A", [components |->
                        <<[identifiers |-> <<[type |-> "SMILES", value |-> "CCO"]>>,
                           amount |-> EmptyDict,
                           reaction_role |-> "REACTANT"]>>]>>
         /\ tr_ret.value.outcomes[1].is_desired_product = TRUE

\* C18: transform_reaction_data keeps the input entries in their order and
\* category and emits one outcome entry per product, in order; on the
\* fixture the detailed output has, under the field inputs,
\* inputs[0] = ["A", {components: [{identifiers [SMILES, CCO], amount {},
\* reaction_role REACTANT}]}], and outcomes[0].is_desired_product is true.
C18_DetailedAsStated == DetailedContract("inputs")

\* the first identifier of item whose type code is 2, if any, carries a value
SmilesValued(item) ==
  LET ids == Get(item, "identifiersList", <<>>)
      is2(i) == IF "type" \in DOMAIN ids[i] THEN ids[i].type = 2 ELSE FALSE
  IN \A i \in DOMAIN ids :
       (is2(i) /\ \A j \in 1..(i - 1) : ~is2(j)) => "value" \in DOMAIN ids[i]

\* the identifier and the measurement the simplified record is read from
\* carry a value, for every component and product of the record
ValuesPresent ==
  /\ \A k \in DOMAIN RawComponents :
       LET c == RawComponents[k]
           amt == Get(c, "amount", EmptyDict)
       IN /\ SmilesValued(c)
          /\ IF "moles" \in DOMAIN amt THEN "value" \in DOMAIN amt.moles
             ELSE IF "volume" \in DOMAIN amt THEN "value" \in DOMAIN amt.volume
             ELSE TRUE
  /\ \A k \in DOMAIN RawProducts : SmilesValued(RawProducts[k])

\* smiles is the value of the first identifier of item whose type code is
\* 2, and null when item has none
FirstSmilesIs(item, smiles) ==
  LET ids == Get(item, "identifiersList", <<>>)
      is2(i) == IF "type" \in DOMAIN ids[i] THEN ids[i].type = 2 ELSE FALSE
  IN /\ \A i \in DOMAIN ids :
          (is2(i) /\ \A j \in 1..(i - 1) : ~is2(j)) => smiles = ids[i].value
     /\ (\A i \in DOMAIN ids : ~is2(i)) => smiles = NoneStr

C20_NoDataReturnsNothing ==
  (prog = "transform" /\ tr_ret.called) =>
    \A simple \in BOOLEAN :
      (tr_simple = simple /\ (IF IsNone(tr_raw) THEN TRUE ELSE "data" \notin DOMAIN tr_raw))
        => /\ ~tr_ret.raised
           /\ tr_ret.value = NoneDict

C20_Witness ==
  /\ prog = "transform" /\ tr_ret.called /\ tr_simple
  /\ tr_raw = [reaction_id |-> "r1", success |-> FALSE, error |-> "Max retries exceeded"]
  /\ ~tr_ret.raised
  /\ IsNone(tr_ret.value)

(***************************************************************************)
(* Claims about retries, fetches and the Stop causes.                      *)
(***************************************************************************)

\* C25: in scrape_reaction an attempt whose payload is malformed JSON (it
\* begins with '{' and does not parse) is not retried: it is the last attempt
\* made and the call fails at once; an attempt whose text does not begin
\* with '{' is retried, as long as attempts of the retry bound are left.
C25_MalformedNotRetried ==
  (prog = "scrape" /\ sr_ret.called) =>
    \A a \in Range(sr_ret.made) :
      /\ sr_outs[a] = "bad_json" =>
           /\ a = Len(sr_ret.made)
           /\ ~sr_ret.ret.success
      /\ (sr_outs[a] = "no_marker" /\ a < sr_max_retries) =>
           (a + 1) \in Range(sr_ret.made)

\* the URLs whose fetch returned a record, in the order of the fetches
Succeeded(urls, oks) ==
  LET kept == SelectSeq([k \in DOMAIN urls |-> k], LAMBDA k : oks[k])
  IN [j \in DOMAIN kept |-> urls[kept[j]]]

\* the exits of the loop of mine_paper_data
StopCauses ==
  {"loop", "timeout", "identical", "empty", "limit", "nonext",
   "error:get", "error:find", "error:cookies"}

\* C27: whatever the Stop cause of mine_paper_data (revisited URL, page-load
\* timeout, stagnation, empty page, cap, no next link, an exception raised
\* while walking), the call returns exactly the records of the detail
\* fetches that succeeded before the Stop, in the order of discovery, and no
\* error reaches initiate_extraction.
C27_StopKeepsRecords ==
  (prog = "kmt" /\ stop \notin {"none", "idle"}) =>
    /\ stop \in StopCauses
    /\ Len(fetch_ok) = Len(fetched)
    /\ extracted_reactions = Succeeded(fetched, fetch_ok)
    /\ kmt_pc \in {"mining", "mined", "saved"}
    /\ kmt_pc \in {"mined", "saved"} =>
         /\ Len(walks) = Len(target_papers)
         /\ walks[Len(walks)] = [items |-> Succeeded(fetched, fetch_ok), stop |-> stop]
         /\ formatted_results[target_papers[Len(walks)].url] = Succeeded(fetched, fetch_ok)

C27_Witness ==
  /\ prog = "kmt" /\ kmt_pc = "mined"
  /\ stop = "error:cookies"
  /\ fetched = <<1, 2>>
  /\ fetch_ok = <<FALSE, TRUE>>
  /\ walks = <<[items |-> <<2>>, stop |-> "error:cookies"]>>

\* the quantity kinds, in the order parse_amount is to check them
KindPriority == <<"moles", "volume", "mass">>

\* C28: parse_amount emits at most one quantity kind per component: the
\* first present one when checking moles, then volume, then mass, whatever
\* kinds the raw amount holds together (a lower-priority kind is dropped),
\* and an empty amount when the raw amount is absent or holds none of the
\* three.
C28_FirstKindOnly ==
  (prog = "transform" /\ tr_ret.called /\ ~tr_simple /\ HasData(tr_raw)) =>
    /\ ~tr_ret.raised
    /\ Len(OutComponents) = Len(RawComponents)
    /\ \A k \in DOMAIN RawComponents :
         LET amt == Get(RawComponents[k], "amount", EmptyDict)
             out == OutComponents[k].amount
             present == {i \in DOMAIN KindPriority : KindPriority[i] \in DOMAIN amt}
         IN /\ Cardinality(DOMAIN out) <= 1
            /\ present = {} => DOMAIN out = {}
            /\ present # {} =>
                 LET kind == KindPriority[Min(present)] IN
                 /\ DOMAIN out = {kind}
                 /\ out[kind].value = Get(amt[kind], "value", NoneStr)

C28_Witness ==
  /\ prog = "transform" /\ tr_ret.called /\ ~tr_simple /\ HasData(tr_raw)
  /\ Len(RawComponents) = 1
  /\ DOMAIN Get(RawComponents[1], "amount", EmptyDict) = {"volume", "mass"}
  /\ OutComponents[1].amount = [volume |-> [value |-> "2", units |-> "MILLILITER"]]

(***************************************************************************)
(* Claims about the persisted document and the dispatch of the datasets.   *)
(***************************************************************************)

\* C29: after a run that reaches the write, the keys of the document
\* written are exactly the ids of the collections dispatched; a collection
\* that failed or had no items has an entry with count 0 and no records.
C29_KeysAreDispatched ==
  (prog = "ord" /\ main_pc = "saved") =>
    /\ DOMAIN formatted_output = Range(dataset_list)
    /\ \A i \in Tasks :
         LET entry == formatted_output[dataset_list[i]] IN
         /\ entry.dataset_id = dataset_list[i]
         /\ (failed_at[i] # "" \/ reaction_ids[i] = <<>>) =>
              /\ entry.total_reactions_scraped = 0
              /\ entry.reactions = <<>>

C29_Witness ==
  /\ prog = "ord" /\ main_pc = "saved"
  /\ dataset_list = <<"a", "b", "c">>
  /\ failed_at = <<"", "body", "">>
  /\ formatted_output["a"].total_reactions_scraped = 1
  /\ formatted_output["b"].reactions = <<>>
  /\ formatted_output["c"].total_reactions_scraped = 0

\* how many elements of the sequence s satisfy Test
CountOf(s, Test(_)) == Cardinality({k \in DOMAIN s : Test(s[k])})

\* C30: run_parallel_scraping processes a collection that has an entry in
\* dataset_ranges with exactly that entry's (start, end), also when a global
\* reaction range is given; every other collection with the global range if
\* one is given and with no range otherwise; and it submits every collection
\* of the list once per occurrence.
C30_RangesPerCollection ==
  (prog = "dispatch" /\ call_ret.called) =>
    LET list == call_args.dataset_list
        ranges == call_args.dataset_ranges
        global == <<call_args.reaction_start, call_args.reaction_end>>
        sub == call_ret.submitted
        HasEntry(d) == IF IsNone(ranges) THEN FALSE ELSE d \in DOMAIN ranges
    IN /\ Len(sub) = Len(list)
       /\ \A d \in {"a", "b", "c"} :
            CountOf(sub, LAMBDA c : c.dataset_id = d) = CountOf(list, LAMBDA x : x = d)
       /\ \A k \in DOMAIN list :
            /\ sub[k].dataset_id = list[k]
            /\ <<sub[k].start, sub[k].end>> =
                 IF HasEntry(list[k]) THEN ranges[list[k]]
                 ELSE IF global # <<NoIndex, NoIndex>> THEN global
                 ELSE <<NoIndex, NoIndex>>

C30_Witness ==
  /\ prog = "dispatch" /\ call_ret.called
  /\ call_args = [dataset_list |-> <<"a", "c", "a">>,
                  dataset_ranges |-> [a |-> <<1, 2>>],
                  reaction_start |-> 3, reaction_end |-> 4]
  /\ call_ret.submitted = <<[dataset_id |-> "a", start |-> 1, end |-> 2],
                            [dataset_id |-> "c", start |-> 3, end |-> 4],
                            [dataset_id |-> "a", start |-> 1, end |-> 2]>>

(***************************************************************************)
(* Claims about the listings: get_reaction_ids and get_all_dataset_ids.    *)
(***************************************************************************)

\* positions first..last of the listing 1, 2, ..., n
Listed(first, last) == [k \in 1..(last - first + 1) |-> first + k - 1]

\* the range an index pair asks of a listing of n entries: from start (the
\* first when absent) through end (the last when absent), at most through n
Asked(start_idx, end_idx, n) ==
  LET first == IF start_idx = NoIndex THEN 1 ELSE start_idx
      last == IF end_idx = NoIndex THEN n ELSE IF end_idx < n THEN end_idx ELSE n
  IN Listed(first, last)

\* start and end are absent, or 1 <= start <= end
RangeGiven(start_idx, end_idx) ==
  /\ start_idx = NoIndex \/ start_idx >= 1
  /\ end_idx = NoIndex \/ end_idx >= 1
  /\ (start_idx # NoIndex /\ end_idx # NoIndex) => start_idx <= end_idx

\* C23: for all 1 <= start <= end, get_reaction_ids(start, end) returns
\* exactly the reaction ids at the 1-based positions start..min(end, N) of
\* the dataset's deduplicated reaction listing, in listing order, N being
\* the number of distinct reactions of the dataset, of any size; an absent
\* start means from the first, an absent end through the last; no id occurs
\* twice.
C23_ReactionRange ==
  (prog = "reaction_ids" /\ call_ret.called /\ call_args.page = "ok"
     /\ RangeGiven(call_args.start_idx, call_args.end_idx)) =>
    /\ call_ret.value = Asked(call_args.start_idx, call_args.end_idx, call_args.rows)
    /\ NoDup(call_ret.value)

\* the discovery made under the oracle report r
DiscoveryUnder(r) == call_ret.ret[r]

\* C21: get_all_dataset_ids stops after finitely many pages on every
\* listing, as the walker of mine_paper_data does: also on a listing whose
\* page count cannot be read and whose forward control stays enabled while
\* the pages repeat the same collection links.
C21_DiscoveryStops ==
  (prog = "dataset_ids" /\ call_ret.called) =>
    \A r \in OracleReports :
      /\ DiscoveryUnder(r).stopped
      /\ DiscoveryUnder(r).pages
           <= PagesOf(call_args.entries, BrowseSize(call_args.select_ok)) + 1

\* C22: in get_all_dataset_ids the page-count oracle is advisory only: for
\* a fixed listing and a fixed (start, end) the ids returned are the same
\* whether the oracle is unavailable, correct, or reports fewer or more
\* entries than the listing has.
C22_OracleAdvisory ==
  (prog = "dataset_ids" /\ call_ret.called) =>
    \A r1, r2 \in OracleReports :
      (DiscoveryUnder(r1).stopped /\ DiscoveryUnder(r2).stopped) =>
        DiscoveryUnder(r1).value = DiscoveryUnder(r2).value

\* C24: for all 1 <= start <= end, get_all_dataset_ids(start, end) returns
\* exactly the collection ids at the 1-based positions start..min(end, N) of
\* the deduplicated listing order (N distinct collections), no id twice, and
\* requests no listing page after the one on which the end-th distinct id
\* was collected.
C24_DatasetRange ==
  (prog = "dataset_ids" /\ call_ret.called
     /\ call_args.start_idx >= 1 /\ call_args.start_idx <= call_args.end_idx) =>
    \A r \in OracleReports :
      DiscoveryUnder(r).stopped =>
        /\ DiscoveryUnder(r).value
             = Asked(call_args.start_idx, call_args.end_idx, call_args.entries)
        /\ NoDup(DiscoveryUnder(r).value)
        /\ call_args.end_idx <= call_args.entries =>
             DiscoveryUnder(r).pages
               = PagesOf(call_args.end_idx, BrowseSize(call_args.select_ok))

(***************************************************************************)
(* Claim about the two fetches of a record.                                *)
(***************************************************************************)
\* the detail page holds an anchor to the payload resource
HoldsPayloadAnchor(anchors) ==
  \E k \in DOMAIN anchors :
    /\ anchors[k].string = "XML"
    /\ "href" \in DOMAIN anchors[k]
    /\ anchors[k].href # <<>>

\* both fetches answer 200 and the first page leads to the second
BothFetched(site) ==
  /\ ~site.detail.raises
  /\ site.detail.status_code = 200
  /\ HoldsPayloadAnchor(site.detail.text)
  /\ ~site.source.raises
  /\ site.source.status_code = 200

\* the items of the page, in order, whose two fetches succeed
FetchedItems(sites) ==
  LET Good(k) == BothFetched(sites[k]) IN
  SelectSeq([k \in DOMAIN sites |-> k], Good)

\* C26: fetch_reaction_data returns a record exactly for the items whose
\* detail page answers 200 and holds an anchor to the payload, whose payload
\* answers 200 too; for every other item, an exception in either fetch
\* included, it returns None and raises nothing, and the records accumulated
\* are those of the successful items only, one each, in order.
C26_RecordIffBothFetches ==
  (prog = "fetch" /\ call_ret.called) =>
    LET sites == call_args.sites
        good == FetchedItems(sites) IN
    /\ ~call_ret.raised
    /\ Len(call_ret.outs) = Len(sites)
    /\ \A k \in DOMAIN sites :
         /\ ~call_ret.outs[k].raised
         /\ ~IsNone(call_ret.outs[k].value) <=> BothFetched(sites[k])
         /\ ~BothFetched(sites[k]) => call_ret.outs[k].value = NoneDict
         /\ BothFetched(sites[k]) =>
              call_ret.outs[k].value.reaction_page_link = k
    /\ call_ret.extracted_reactions =
         [j \in DOMAIN good |-> call_ret.outs[good[j]].value]
    /\ call_ret.scanned_count = Len(good)

\* a page of two items: the first's detail page leads through a relative
\* anchor to a payload whose fetch raises, both fetches of the second answer
\* 200; one record is accumulated, the second's
C26_Witness ==
  /\ prog = "fetch"
  /\ call_ret.called
  /\ Len(call_args.sites) = 2
  /\ BothFetched([detail |-> call_args.sites[1].detail, source |-> GoodSite.source])
  /\ call_args.sites[1].source.raises
  /\ call_args.sites[1].detail.text[Len(call_args.sites[1].detail.text)].href[1] = "/"
  /\ BothFetched(call_args.sites[2])
  /\ call_ret.outs[1].value = NoneDict
  /\ Len(call_ret.extracted_reactions) = 1
  /\ call_ret.extracted_reactions[1].reaction_page_link = 2

=============================================================================
